---- MODULE Spec2Model ----
(***************************************************************************)
(* Screenshot Cropper: the image compositor (ImageCompositor.process_image)*)
(* as a state machine, one job at a time, with the pure computations it    *)
(* uses (crop box, aspect-preserving resize in double arithmetic, path     *)
(* resolution of the background and overlay files); the batch run          *)
(* (ImageProcessor.process_images) over files and locales; jobs that run   *)
(* side by side on one output directory and one text processor; and the    *)
(* text layout of TextProcessor.draw_text.                                 *)
(***************************************************************************)
EXTENDS Integers, Sequences, FiniteSets, TLC

VARIABLES
    run,          \* how the compositor was built, and the run's configured overlay
    compositor,   \* the ImageCompositor's fields (self.*)
    env,          \* the file system: the source image and the files that exist
    pc,           \* position inside process_image
    text,         \* argument text   (<<>> is None)
    locale,       \* argument locale (<<>> is None)
    img,          \* the opened source image
    cropped_img,  \* the image carried forward after the crop step
    resized_img,  \* the resized foreground
    final_img,    \* the canvas: a sequence of layers, bottom first
    output_path,  \* what this job has written to output_path (<<>>: nothing)
    result,       \* the return value of process_image (<<>> while running)
    stages,       \* the stages the job went through, in order
    raised,       \* the steps that raised, in order
    batch,        \* a run of process_images (<<>> when none is modelled)
    pool,         \* jobs running side by side (<<>> when none is modelled)
    draw,         \* a call of draw_text (<<>> when none is modelled)
    config,       \* settings objects under construction and use (<<>> when none)
    locale_handler, \* a LocaleHandler and a get_text call (<<>> when none)
    template      \* a template preparation over text layers (<<>> when none)

\* the state outside a single process_image job
\* the state of the settings, locale and template components
libVars == <<config, locale_handler, template>>

otherVars == <<batch, pool, draw, libVars>>

\* the state of a single process_image job
jobVars == <<run, compositor, env, pc, text, locale, img, cropped_img, resized_img,
             final_img, output_path, result, stages, raised>>

vars == <<jobVars, otherVars>>

(***************************************************************************)
(* Bounds of the model.                                                    *)
(***************************************************************************)
\* source sizes of the general specification: 1..MaxDim in each direction
MaxDim == 2
\* source sizes and insets of the crop specification
MaxCropDim == 3
MaxInset == 3
\* cropped sizes and target widths of the resize specification
MaxResizeDim == 15
\* positions (background.position_*, overlay.position_*) are 0..MaxPos
MaxPos == 1

(***************************************************************************)
(* Values.  None is the empty tuple and Some(x) the one-element tuple.     *)
(***************************************************************************)
None == <<>>
Some(x) == <<x>>
IsNone(o) == o = <<>>
The(o) == o[1]

\* Python truth of an optional string: None and "" are falsy.
Truthy(t) == ~IsNone(t) /\ The(t) # ""

RECURSIVE Pow2(_)
Pow2(k) == IF k = 0 THEN 1 ELSE 2 * Pow2(k - 1)

(***************************************************************************)
(* Images.  An image is a window of the source's pixel grid: pixel (i, j)  *)
(* of the image is the source pixel (ox + i, oy + j).                      *)
(***************************************************************************)
SourceImage(w, h) == [w |-> w, h |-> h, ox |-> 0, oy |-> 0]

Pixel(im, i, j) == <<im.ox + i, im.oy + j>>

\* PIL Image.crop((left, top, right, bottom)): the rectangle of that box.
ImageCrop(im, box) ==
    [w |-> box.right - box.left, h |-> box.bottom - box.top,
     ox |-> im.ox + box.left, oy |-> im.oy + box.top]

\* PIL Image.copy(): the same pixels.
ImageCopy(im) == im

(***************************************************************************)
(* Settings objects (src/models/settings.py): construction validates.      *)
(***************************************************************************)
\* a construction that resets every inset when one of them is negative
CropSettingsResetAll(top, left, right, bottom) ==
    IF top < 0 \/ left < 0 \/ right < 0 \/ bottom < 0
    THEN [top |-> 0, left |-> 0, right |-> 0, bottom |-> 0]
    ELSE [top |-> top, left |-> left, right |-> right, bottom |-> bottom]

CropSettings(top, left, right, bottom) ==
    [top    |-> IF top < 0 THEN 0 ELSE top,
     left   |-> IF left < 0 THEN 0 ELSE left,
     right  |-> IF right < 0 THEN 0 ELSE right,
     bottom |-> IF bottom < 0 THEN 0 ELSE bottom]

BackgroundSettings(file, position_x, position_y, width, height) ==
    [file       |-> file,
     position_x |-> IF position_x < 0 THEN 0 ELSE position_x,
     position_y |-> IF position_y < 0 THEN 0 ELSE position_y,
     width      |-> IF width <= 0 THEN 100 ELSE width,
     height     |-> IF height <= 0 THEN 100 ELSE height]

OverlaySettings(file, position_x, position_y) ==
    [file       |-> file,
     position_x |-> IF position_x < 0 THEN 0 ELSE position_x,
     position_y |-> IF position_y < 0 THEN 0 ELSE position_y]

(***************************************************************************)
(* The crop box of process_image.                                          *)
(***************************************************************************)
\* faulty variant: the bottom edge is measured from the width
CropBoxSwapped(width, height, crop_settings) ==
    [left   |-> crop_settings.left,
     top    |-> crop_settings.top,
     right  |-> IF crop_settings.right > 0 THEN width - crop_settings.right ELSE width,
     bottom |-> IF crop_settings.bottom > 0 THEN width - crop_settings.bottom ELSE height]

CropBox(width, height, crop_settings) ==
    [left   |-> crop_settings.left,
     top    |-> crop_settings.top,
     right  |-> IF crop_settings.right > 0 THEN width - crop_settings.right
                ELSE width,
     bottom |-> IF crop_settings.bottom > 0 THEN height - crop_settings.bottom
                ELSE height]

\* faulty variant: an empty box (left = right or top = bottom) passes as valid
InvalidCropBoxStrict(box) == box.left > box.right \/ box.top > box.bottom

InvalidCropBox(box) == box.left >= box.right \/ box.top >= box.bottom

(***************************************************************************)
(* Python float arithmetic (IEEE 754 binary64, round to nearest, ties to   *)
(* even) on the values process_image computes with.  A float is            *)
(* [bits, exp]: the integer whose binary digits are bits (most significant *)
(* first, at most MantissaBits of them), times 2^exp.                      *)
(***************************************************************************)
MantissaBits == 53

\* digits are produced and consumed ChunkBits at a time
ChunkBits == 8

Front(s) == SubSeq(s, 1, Len(s) - 1)
Last(s) == s[Len(s)]

\* the binary digits of the integer one above the integer of bits
BitsInc(bits) ==
    LET zeros == {i \in 1..Len(bits) : bits[i] = 0}
    IN  IF zeros = {} THEN <<1>> \o [i \in 1..Len(bits) |-> 0]
        ELSE LET z == CHOOSE i \in zeros : \A j \in zeros : j <= i
             IN  [i \in 1..Len(bits) |->
                    IF i < z THEN bits[i] ELSE IF i = z THEN 1 ELSE 0]

RECURSIVE BitsToInt(_)
BitsToInt(bits) ==
    IF bits = <<>> THEN 0 ELSE 2 * BitsToInt(Front(bits)) + Last(bits)

RECURSIVE IntToBits(_)
IntToBits(n) == IF n = 0 THEN <<>> ELSE IntToBits(n \div 2) \o <<n % 2>>

\* the binary digits of v (v < 2^width), padded with zeros to width
BitsOf(v, width) == [i \in 1..width |-> (v \div Pow2(width - i)) % 2]

AnyOne(bits) == \E i \in 1..Len(bits) : bits[i] = 1

\* the next k binary digits of r / d (r < d), and the remainder left
RECURSIVE DivBits(_, _, _)
DivBits(r, d, k) ==
    IF k = 0 THEN [bits |-> <<>>, rem |-> r]
    ELSE LET c    == IF k < ChunkBits THEN k ELSE ChunkBits
             v    == r * Pow2(c)
             rest == DivBits(v % d, d, k - c)
         IN  [bits |-> BitsOf(v \div d, c) \o rest.bits, rem |-> rest.rem]

\* the least k with h * 2^k >= w (h < w), the greatest k with h >= w * 2^k (h >= w)
RECURSIVE ShiftUp(_, _)
ShiftUp(h, w) == IF h >= w THEN 0 ELSE 1 + ShiftUp(2 * h, w)

RECURSIVE ShiftDown(_, _)
ShiftDown(h, w) == IF h < 2 * w THEN 0 ELSE 1 + ShiftDown(h, 2 * w)

\* bits rounded to MantissaBits significant digits, ties to even
FloatRound(bits, exp) ==
    IF Len(bits) <= MantissaBits THEN [bits |-> bits, exp |-> exp]
    ELSE LET keep == SubSeq(bits, 1, MantissaBits)
             rest == SubSeq(bits, MantissaBits + 1, Len(bits))
             up   == rest[1] = 1 /\ (AnyOne(Tail(rest)) \/ Last(keep) = 1)
             kept == IF up THEN BitsInc(keep) ELSE keep
         IN  IF Len(kept) > MantissaBits
             THEN [bits |-> SubSeq(kept, 1, MantissaBits),
                   exp  |-> exp + Len(rest) + 1]
             ELSE [bits |-> kept, exp |-> exp + Len(rest)]

\* int / int: the correctly rounded quotient of two positive integers
FloatDiv(h, w) ==
    LET up   == h < w
        k    == IF up THEN ShiftUp(h, w) ELSE ShiftDown(h, w)
        n    == IF up THEN h * Pow2(k) ELSE h
        d    == IF up THEN w ELSE w * Pow2(k)
        q    == DivBits(n - d, d, MantissaBits)
        s    == IF up THEN k ELSE 0 - k
    IN  \* the leading 1 and MantissaBits digits: one more than the mantissa
        IF q.rem = 0
        THEN FloatRound(<<1>> \o q.bits, 0 - MantissaBits - s)
        ELSE FloatRound(<<1>> \o q.bits \o <<1>>, 0 - MantissaBits - s - 1)

\* int * float: the integer is exact, the product is rounded once
RECURSIVE MulBits(_, _, _)
MulBits(n, bits, carry) ==
    IF bits = <<>> THEN IntToBits(carry)
    ELSE LET c   == IF Len(bits) < ChunkBits THEN Len(bits) ELSE ChunkBits
             low == SubSeq(bits, Len(bits) - c + 1, Len(bits))
             v   == n * BitsToInt(low) + carry
         IN  MulBits(n, SubSeq(bits, 1, Len(bits) - c), v \div Pow2(c))
                 \o BitsOf(v % Pow2(c), c)

FloatMulInt(n, x) == FloatRound(MulBits(n, x.bits, 0), x.exp)

\* int(float): truncation toward zero (the values here are positive)
FloatToInt(x) ==
    IF x.exp >= 0 THEN BitsToInt(x.bits) * Pow2(x.exp)
    ELSE IF 0 - x.exp >= Len(x.bits) THEN 0
    ELSE BitsToInt(SubSeq(x.bits, 1, Len(x.bits) + x.exp))

\* aspect_ratio = original_height / original_width
AspectRatio(original_height, original_width) ==
    FloatDiv(original_height, original_width)

\* new_height = int(new_width * aspect_ratio)
NewHeight(new_width, original_height, original_width) ==
    FloatToInt(FloatMulInt(new_width, AspectRatio(original_height, original_width)))

(***************************************************************************)
(* Files.  A path is [root, name]; root "" is the name as given.  The      *)
(* file system is the set of paths at which a file exists.                 *)
(***************************************************************************)
AbsoluteFiles == {"/assets/bg.png"}

\* os.path.isabs
IsAbs(file) == file \in AbsoluteFiles

Path(root, name) == [root |-> root, name |-> name]

\* the one path process_image derives for a configured file name
InputPath(file, base_dir) ==
    IF IsAbs(file) THEN Path("", file)
    ELSE IF Truthy(base_dir) THEN Path("base_dir/input", file)
    ELSE Path("image_parent/input", file)

BackgroundPath(self) == InputPath(The(self.background_settings).file, self.base_dir)

OverlayPath(self) == InputPath(The(self.overlay_settings).file, self.base_dir)

\* os.path.isfile
IsFile(path) == path \in env.files

(***************************************************************************)
(* Construction.  ImageCompositor.__init__ stores its arguments;           *)
(* ImageProcessor.__init__ builds its compositor from four of its own.     *)
(***************************************************************************)
ImageCompositor(crop_settings, background_settings, text_processor, base_dir, overlay_settings) ==
    [crop_settings       |-> crop_settings,
     background_settings |-> background_settings,
     text_processor      |-> text_processor,
     base_dir            |-> base_dir,
     overlay_settings    |-> overlay_settings]

ImageProcessor(crop_settings, background_settings, text_processor, base_dir) ==
    ImageCompositor(crop_settings, background_settings, text_processor, base_dir,
                    None)

(***************************************************************************)
(* Layers of a canvas and files written.                                   *)
(***************************************************************************)
BackgroundLayer(path) == [kind |-> "background", file |-> path]

ForegroundLayer(im, x, y) == [kind |-> "foreground", img |-> im, at |-> <<x, y>>]

TextLayer(t, l) == [kind |-> "text", text |-> t, locale |-> l]

OverlayLayer(path, x, y) ==
    [kind |-> "overlay", file |-> path, at |-> <<x, y>>, size |-> "native"]

CroppedFile(im) == [kind |-> "cropped", img |-> im, layers |-> <<>>]

CompositeFile(layers) == [kind |-> "composite", img |-> None, layers |-> layers]

\* Image.resize((new_width, new_height)) of im
ImageResize(im, new_width, new_height) ==
    [w |-> new_width, h |-> new_height, of |-> im]

(***************************************************************************)
(* The inputs of a job: how the compositor is built, and the file system.  *)
(***************************************************************************)
Input(via, base_dir, crop, bg, tp, overlay, source, files) ==
    [via |-> via, base_dir |-> base_dir, crop_settings |-> crop,
     background_settings |-> bg, text_processor |-> tp,
     overlay_settings |-> overlay, source |-> source, files |-> files]

\* the state of a job that has not started
InitJob(in) ==
    /\ run = [via |-> in.via, overlay_settings |-> in.overlay_settings]
    /\ compositor =
           IF in.via = "ImageProcessor"
           THEN ImageProcessor(in.crop_settings, in.background_settings,
                               in.text_processor, in.base_dir)
           ELSE ImageCompositor(in.crop_settings, in.background_settings,
                                in.text_processor, in.base_dir,
                                in.overlay_settings)
    /\ env = [source |-> in.source, files |-> in.files]
    /\ pc = "idle"
    /\ text = None
    /\ locale = None
    /\ img = None
    /\ cropped_img = None
    /\ resized_img = None
    /\ final_img = <<>>
    /\ output_path = None
    /\ result = None
    /\ stages = <<>>
    /\ raised = <<>>

InitWith(inputs) ==
    \E in \in inputs :
        /\ InitJob(in)
        /\ config = <<>>
        /\ locale_handler = <<>>
        /\ template = <<>>
        /\ batch = <<>>
        /\ pool = <<>>
        /\ draw = <<>>

(***************************************************************************)
(* process_image, step by step.  A step inside the inner try that raises   *)
(* goes to the fallback save; a raise outside it makes the job return      *)
(* False.                                                                  *)
(***************************************************************************)
bookVars == <<run, compositor, env, text, locale, otherVars>>

\* the caller's arguments: text is what get_text returned (None, "" or a string)
CallArgs ==
    {[text |-> None,          locale |-> None],
     [text |-> None,          locale |-> Some("de")],
     [text |-> Some(""),      locale |-> Some("de")],
     [text |-> Some("Hello"), locale |-> Some("de")]}

ProcessImage ==
    /\ pc = "idle"
    /\ \E a \in CallArgs : text' = a.text /\ locale' = a.locale
    /\ pc' = "open"
    /\ UNCHANGED <<run, compositor, env, img, cropped_img, resized_img, final_img,
                   output_path, result, stages, raised, otherVars>>

\* faulty variant of the outer handler: the error is swallowed, success returned
ReturnTrueOnError(step) ==
    /\ raised' = Append(raised, step)
    /\ result' = Some(TRUE)
    /\ pc' = "done"

\* except Exception (outer): return False
ReturnFalse(step) ==
    /\ raised' = Append(raised, step)
    /\ result' = Some(FALSE)
    /\ pc' = "done"

\* except Exception (inner): on to the fallback save
ToFallback(step) ==
    /\ raised' = Append(raised, step)
    /\ pc' = "fallback"

\* with Image.open(image_path) as img
OpenImage ==
    /\ pc = "open"
    /\ \/ /\ IsNone(env.source)
          /\ ReturnFalse("open")
          /\ UNCHANGED <<img, stages>>
       \/ /\ ~IsNone(env.source)
          /\ img' = Some(SourceImage(The(env.source).w, The(env.source).h))
          /\ stages' = Append(stages, "Decoded")
          /\ pc' = "crop"
          /\ UNCHANGED <<result, raised>>
    /\ UNCHANGED <<bookVars, cropped_img, resized_img, final_img, output_path>>

\* the crop box, and img.copy() or img.crop(box)
CropImage ==
    /\ pc = "crop"
    /\ LET box == CropBox(The(img).w, The(img).h, compositor.crop_settings)
       IN  cropped_img' = IF InvalidCropBox(box)
                          THEN Some(ImageCopy(The(img)))
                          ELSE Some(ImageCrop(The(img), box))
    /\ stages' = Append(stages, "Cropped")
    /\ pc' = IF IsNone(compositor.background_settings) THEN "save_cropped"
             ELSE "background"
    /\ UNCHANGED <<bookVars, img, resized_img, final_img, output_path, result,
                   raised>>

\* faulty variant: without a background the text is still drawn before saving
SaveCroppedWithText ==
    /\ pc = "save_cropped"
    /\ IF compositor.text_processor /\ Truthy(text)
       THEN /\ final_img' = <<TextLayer(The(text), locale)>>
            /\ output_path' = Some(CompositeFile(final_img'))
            /\ stages' = stages \o <<"TextApplied", "SavedAlone">>
       ELSE /\ output_path' = Some(CroppedFile(The(cropped_img)))
            /\ stages' = Append(stages, "SavedAlone")
            /\ UNCHANGED final_img
    /\ result' = Some(TRUE)
    /\ pc' = "done"
    /\ UNCHANGED <<bookVars, img, cropped_img, resized_img, raised>>

\* no background settings: cropped_img.save(output_path); return True
SaveCropped ==
    /\ pc = "save_cropped"
    /\ \/ /\ output_path' = Some(CroppedFile(The(cropped_img)))
          /\ stages' = Append(stages, "SavedAlone")
          /\ result' = Some(TRUE)
          /\ pc' = "done"
          /\ UNCHANGED raised
       \/ /\ ReturnFalse("save_cropped")
          /\ UNCHANGED <<output_path, stages>>
    /\ UNCHANGED <<bookVars, img, cropped_img, resized_img, final_img>>

\* faulty variant: a missing background file aborts the job
ResolveBackgroundAbort ==
    /\ pc = "background"
    /\ \/ /\ IsFile(BackgroundPath(compositor))
          /\ pc' = "open_background"
          /\ UNCHANGED <<result, raised>>
       \/ /\ ~IsFile(BackgroundPath(compositor))
          /\ ReturnFalse("background")
    /\ UNCHANGED <<bookVars, img, cropped_img, resized_img, final_img, output_path,
                   stages>>

\* the background path; a missing file: save the cropped image, return True
ResolveBackground ==
    /\ pc = "background"
    /\ \/ /\ IsFile(BackgroundPath(compositor))
          /\ pc' = "open_background"
          /\ UNCHANGED <<output_path, result, stages, raised>>
       \/ /\ ~IsFile(BackgroundPath(compositor))
          /\ \/ /\ output_path' = Some(CroppedFile(The(cropped_img)))
                /\ stages' = Append(stages, "SavedAlone")
                /\ result' = Some(TRUE)
                /\ pc' = "done"
                /\ UNCHANGED raised
             \/ /\ ToFallback("save_missing_background")
                /\ UNCHANGED <<output_path, result, stages>>
    /\ UNCHANGED <<bookVars, img, cropped_img, resized_img, final_img>>

\* with Image.open(bg_path) as bg_img
OpenBackground ==
    /\ pc = "open_background"
    /\ \/ /\ pc' = "resize"
          /\ UNCHANGED raised
       \/ ToFallback("open_background")
    /\ UNCHANGED <<bookVars, img, cropped_img, resized_img, final_img, output_path,
                   result, stages>>

\* resized_img = cropped_img.resize((new_width, new_height)); a size of 0 raises
ResizeForeground ==
    /\ pc = "resize"
    /\ LET new_width  == The(compositor.background_settings).width
           new_height == NewHeight(new_width, The(cropped_img).h, The(cropped_img).w)
       IN  \/ /\ new_height > 0
              /\ resized_img' = Some(ImageResize(The(cropped_img), new_width, new_height))
              /\ pc' = "paste"
              /\ UNCHANGED raised
           \/ /\ new_height <= 0
              /\ ToFallback("resize")
              /\ UNCHANGED resized_img
    /\ UNCHANGED <<bookVars, img, cropped_img, final_img, output_path, result,
                   stages>>

\* final_img = bg_img.copy(); final_img.paste(resized_img, (position_x, position_y))
PasteForeground ==
    /\ pc = "paste"
    /\ \/ /\ final_img' =
                <<BackgroundLayer(BackgroundPath(compositor)),
                  ForegroundLayer(The(resized_img),
                                  The(compositor.background_settings).position_x,
                                  The(compositor.background_settings).position_y)>>
          /\ stages' = Append(stages, "Composited")
          /\ pc' = "text"
          /\ UNCHANGED raised
       \/ /\ ToFallback("paste")
          /\ UNCHANGED <<final_img, stages>>
    /\ UNCHANGED <<bookVars, img, cropped_img, resized_img, output_path, result>>

\* faulty variant: the text is drawn whether or not a text processor is there
DrawTextWithoutProcessor ==
    /\ pc = "text"
    /\ \/ /\ Truthy(text)
          /\ final_img' = Append(final_img, TextLayer(The(text), locale))
          /\ stages' = Append(stages, "TextApplied")
       \/ /\ ~Truthy(text)
          /\ UNCHANGED <<final_img, stages>>
    /\ pc' = "overlay"
    /\ UNCHANGED <<bookVars, img, cropped_img, resized_img, output_path, result,
                   raised>>

\* if self.text_processor and text: final_img = draw_text(final_img, text, locale)
DrawText ==
    /\ pc = "text"
    /\ \/ /\ compositor.text_processor /\ Truthy(text)
          /\ \/ /\ final_img' = Append(final_img, TextLayer(The(text), locale))
                /\ stages' = Append(stages, "TextApplied")
                /\ pc' = "overlay"
                /\ UNCHANGED raised
             \/ /\ ToFallback("draw_text")
                /\ UNCHANGED <<final_img, stages>>
       \/ /\ ~(compositor.text_processor /\ Truthy(text))
          /\ pc' = "overlay"
          /\ UNCHANGED <<final_img, stages, raised>>
    /\ UNCHANGED <<bookVars, img, cropped_img, resized_img, output_path, result>>

\* faulty variant: the overlay is opened without the os.path.isfile check,
\* so a missing overlay file raises
ApplyOverlayWithoutFileCheck ==
    /\ pc = "overlay"
    /\ \/ /\ ~IsNone(compositor.overlay_settings)
          /\ IsFile(OverlayPath(compositor))
          /\ final_img' =
                Append(final_img,
                       OverlayLayer(OverlayPath(compositor),
                                    The(compositor.overlay_settings).position_x,
                                    The(compositor.overlay_settings).position_y))
          /\ stages' = Append(stages, "OverlayApplied")
          /\ pc' = "save_final"
          /\ UNCHANGED raised
       \/ /\ ~IsNone(compositor.overlay_settings)
          /\ ~IsFile(OverlayPath(compositor))
          /\ ToFallback("overlay")
          /\ UNCHANGED <<final_img, stages>>
       \/ /\ IsNone(compositor.overlay_settings)
          /\ pc' = "save_final"
          /\ UNCHANGED <<final_img, stages, raised>>
    /\ UNCHANGED <<bookVars, img, cropped_img, resized_img, output_path, result>>

\* if self.overlay_settings: paste the overlay, if its file is there
ApplyOverlay ==
    /\ pc = "overlay"
    /\ \/ /\ ~IsNone(compositor.overlay_settings)
          /\ IsFile(OverlayPath(compositor))
          /\ \/ /\ final_img' =
                      Append(final_img,
                             OverlayLayer(OverlayPath(compositor),
                                          The(compositor.overlay_settings).position_x,
                                          The(compositor.overlay_settings).position_y))
                /\ stages' = Append(stages, "OverlayApplied")
                /\ pc' = "save_final"
                /\ UNCHANGED raised
             \/ /\ ToFallback("overlay")
                /\ UNCHANGED <<final_img, stages>>
       \/ /\ ~IsNone(compositor.overlay_settings)
          /\ ~IsFile(OverlayPath(compositor))
          /\ pc' = "save_final"
          /\ UNCHANGED <<final_img, stages, raised>>
       \/ /\ IsNone(compositor.overlay_settings)
          /\ pc' = "save_final"
          /\ UNCHANGED <<final_img, stages, raised>>
    /\ UNCHANGED <<bookVars, img, cropped_img, resized_img, output_path, result>>

\* faulty variant: the job goes on to the fallback after a completed save
SaveFinalThenFallback ==
    /\ pc = "save_final"
    /\ output_path' = Some(CompositeFile(final_img))
    /\ stages' = Append(stages, "Saved")
    /\ pc' = "fallback"
    /\ UNCHANGED <<bookVars, img, cropped_img, resized_img, final_img, result, raised>>

\* final_img.save(output_path), then return True
SaveFinal ==
    /\ pc = "save_final"
    /\ \/ /\ output_path' = Some(CompositeFile(final_img))
          /\ stages' = Append(stages, "Saved")
          /\ result' = Some(TRUE)
          /\ pc' = "done"
          /\ UNCHANGED raised
       \/ /\ ToFallback("save_final")
          /\ UNCHANGED <<output_path, result, stages>>
    /\ UNCHANGED <<bookVars, img, cropped_img, resized_img, final_img>>

\* faulty variant of the fallback: the canvas composed so far is saved
FallbackSaveCanvas ==
    /\ pc = "fallback"
    /\ output_path' = Some(CompositeFile(final_img))
    /\ stages' = Append(stages, "SavedAlone")
    /\ result' = Some(TRUE)
    /\ pc' = "done"
    /\ UNCHANGED <<bookVars, img, cropped_img, resized_img, final_img, raised>>

\* except Exception (inner): cropped_img.save(output_path), then return True
FallbackSave ==
    /\ pc = "fallback"
    /\ \/ /\ output_path' = Some(CroppedFile(The(cropped_img)))
          /\ stages' = Append(stages, "SavedAlone")
          /\ result' = Some(TRUE)
          /\ pc' = "done"
          /\ UNCHANGED raised
       \/ /\ ReturnFalse("save_fallback")
          /\ UNCHANGED <<output_path, stages>>
    /\ UNCHANGED <<bookVars, img, cropped_img, resized_img, final_img>>

Next ==
    \/ ProcessImage
    \/ OpenImage
    \/ CropImage
    \/ SaveCropped
    \/ ResolveBackground
    \/ OpenBackground
    \/ ResizeForeground
    \/ PasteForeground
    \/ DrawText
    \/ ApplyOverlay
    \/ SaveFinal
    \/ FallbackSave

(***************************************************************************)
(* Specifications: the same program over different sets of inputs.         *)
(***************************************************************************)
BaseDir == Some("project")

NoCrop == CropSettings(0, 0, 0, 0)

BgFile == "bg.png"
OverlayFile == "overlay.png"

\* file systems: where the background and the overlay are found
FileSystems ==
    SUBSET {Path("base_dir/input", BgFile), Path("base_dir", BgFile),
            Path("base_dir/input", OverlayFile)}
    \cup {{Path("", "/assets/bg.png")},
          {Path("image_parent/input", BgFile), Path("image_parent/input", OverlayFile)}}

Sources(maxw, maxh) == {Some([w |-> w, h |-> h]) : w \in 1..maxw, h \in 1..maxh}

Builds == {[via |-> "ImageProcessor", base_dir |-> BaseDir],
           [via |-> "direct", base_dir |-> BaseDir],
           [via |-> "direct", base_dir |-> None]}

\* the general specification: every branch of process_image
ComposeInputs ==
    {Input(b.via, b.base_dir, crop, bg, tp, ov, src, fs) :
        b \in Builds,
        crop \in {NoCrop, CropSettings(1, 0, 0, 0)},
        bg \in {None} \cup
               {Some(BackgroundSettings(f, MaxPos, 0, w, 1)) :
                    f \in {BgFile} \cup AbsoluteFiles, w \in 1..MaxDim},
        tp \in BOOLEAN,
        ov \in {None, Some(OverlaySettings(OverlayFile, MaxPos, MaxPos))},
        src \in {None} \cup Sources(MaxDim, MaxDim),
        fs \in FileSystems}

\* a few jobs that take every branch, for the specifications below
CoverInputs ==
    {Input("direct", BaseDir, NoCrop, bg, TRUE, ov, src, fs) :
        bg \in {None, Some(BackgroundSettings(BgFile, 0, 0, 1, 1))},
        ov \in {None, Some(OverlaySettings(OverlayFile, 0, 0))},
        src \in {None, Some([w |-> 1, h |-> 1]), Some([w |-> 2, h |-> 1])},
        fs \in {{}, {Path("base_dir/input", BgFile)},
                {Path("base_dir/input", BgFile), Path("base_dir/input", OverlayFile)}}}

\* the crop specification: every source size and every inset up to the bounds
CropInputs ==
    {Input("direct", BaseDir, CropSettings(t, l, r, b), None, FALSE, None, src, {}) :
        t \in 0..MaxInset, l \in 0..MaxInset, r \in 0..MaxInset, b \in 0..MaxInset,
        src \in Sources(MaxCropDim, MaxCropDim)}

\* the resize specification: every cropped size and target width up to the bound
ResizeInputs ==
    {Input("direct", BaseDir, NoCrop,
           Some(BackgroundSettings(BgFile, 0, 0, tw, th)), FALSE, None, src,
           {Path("base_dir/input", BgFile)}) :
        tw \in 1..MaxResizeDim, th \in {1, MaxResizeDim},
        src \in Sources(MaxResizeDim, MaxResizeDim)}

Init == InitWith(ComposeInputs)
Spec == Init /\ [][Next]_vars

InitCrop == InitWith(CropInputs \cup CoverInputs)
SpecCrop == InitCrop /\ [][Next]_vars

InitResize == InitWith(ResizeInputs \cup CoverInputs)
SpecResize == InitResize /\ [][Next]_vars

(***************************************************************************)
(* Vocabulary of the properties.                                           *)
(***************************************************************************)
Done == pc = "done"

Readable == env.source # <<>>

RaisedSteps == {raised[i] : i \in 1..Len(raised)}

StageSet == {stages[i] : i \in 1..Len(stages)}

HasLayer(layers, kind) == \E i \in 1..Len(layers) : layers[i].kind = kind

NoOutput == output_path = <<>>

ReturnedTrue == result = <<TRUE>>

ReturnedFalse == result = <<FALSE>>

\* the output holds the cropped image and nothing else
CroppedOnlyOutput ==
    /\ cropped_img # <<>>
    /\ output_path # <<>>
    /\ output_path[1].kind = "cropped"
    /\ output_path[1].img = cropped_img[1]
    /\ output_path[1].layers = <<>>

CompositeOutput == output_path # <<>> /\ output_path[1].kind = "composite"

BackgroundConfigured == compositor.background_settings # <<>>

\* the steps between background resolution and overlay application
CompositeSteps == {"open_background", "resize", "paste", "draw_text", "overlay"}

\* the saves of the cropped image that end the job when they raise
CroppedSaves == {"save_cropped", "save_fallback"}

(***************************************************************************)
(* C1                                                                      *)
(***************************************************************************)
\* C1 (as stated): an unreadable source makes the job report failure and write
\* nothing, and this is the only outcome without an output file: every job
\* past decoding ends with an output file, every failed job has written none.
C1_OnlyUnreadableSourceLeavesNoOutput ==
    Done =>
        /\ ~Readable => ReturnedFalse /\ NoOutput
        /\ NoOutput => ~Readable
        /\ ReturnedFalse => NoOutput

\* C1 (amended): an unreadable source makes the job report failure and write
\* nothing; a job past decoding ends with an output file and success unless a
\* save of the cropped image (the direct one, or the fallback one) raised, and
\* then it reports failure; a job reports failure exactly when it saved nothing.
C1_NoOutputIffUnreadableOrCroppedSaveRaised ==
    Done =>
        /\ ~Readable => ReturnedFalse /\ NoOutput /\ raised = <<"open">>
        /\ ReturnedFalse <=> NoOutput
        /\ ReturnedTrue <=> ~NoOutput
        /\ NoOutput <=> (~Readable \/ RaisedSteps \cap CroppedSaves # {})

C1_Witness_UnreadableSourceFailed ==
    Done /\ ~Readable /\ ReturnedFalse /\ NoOutput

(***************************************************************************)
(* C2                                                                      *)
(***************************************************************************)
\* C2 (as stated): when a step between background resolution and overlay
\* application raises, the job saves the cropped-only image and reports success.
C2_StepRaisedThenCroppedSavedAndSuccess ==
    (Done /\ RaisedSteps \cap CompositeSteps # {}) =>
        CroppedOnlyOutput /\ ReturnedTrue

\* C2 (amended): when such a step raises, the job never saves the canvas: it
\* saves the cropped-only image and reports success, unless that fallback save
\* raises too, and then it reports failure with nothing saved.
C2_StepRaisedThenFallbackToCropped ==
    (Done /\ RaisedSteps \cap CompositeSteps # {}) =>
        /\ ~CompositeOutput
        /\ \/ CroppedOnlyOutput /\ ReturnedTrue /\ "save_fallback" \notin RaisedSteps
           \/ NoOutput /\ ReturnedFalse /\ raised[Len(raised)] = "save_fallback"

C2_Witness_PasteRaisedCroppedSaved ==
    Done /\ raised = <<"paste">> /\ CroppedOnlyOutput /\ ReturnedTrue

(***************************************************************************)
(* C3                                                                      *)
(***************************************************************************)
\* the configured background file is not at the path the job derives for it
BackgroundMissing ==
    /\ BackgroundConfigured
    /\ LET file == compositor.background_settings[1].file
       IN  [root |-> IF file \in AbsoluteFiles THEN ""
                     ELSE IF compositor.base_dir \notin {<<>>, <<"">>}
                     THEN "base_dir/input" ELSE "image_parent/input",
            name |-> file] \notin env.files

\* C3 (as stated): with a background configured whose file does not exist, the
\* job writes the cropped image alone and reports success.
C3_MissingBackgroundThenCroppedSavedAndSuccess ==
    (Done /\ Readable /\ BackgroundMissing) => CroppedOnlyOutput /\ ReturnedTrue

\* C3 (amended): with a background configured whose file does not exist, the
\* job applies no background, text or overlay; it writes the cropped image
\* alone and reports success, unless both saves of the cropped image raise,
\* and then it reports failure with nothing saved.
C3_MissingBackgroundThenCroppedOnly ==
    (Done /\ Readable /\ BackgroundMissing) =>
        /\ final_img = <<>>
        /\ StageSet \cap {"Composited", "TextApplied", "OverlayApplied", "Saved"} = {}
        /\ \/ CroppedOnlyOutput /\ ReturnedTrue
           \/ /\ NoOutput /\ ReturnedFalse
              /\ raised = <<"save_missing_background", "save_fallback">>

C3_Witness_MissingBackgroundCroppedSaved ==
    /\ Done /\ Readable /\ BackgroundMissing
    /\ CroppedOnlyOutput /\ ReturnedTrue /\ raised = <<>>

(***************************************************************************)
(* C4                                                                      *)
(***************************************************************************)
\* C4 (as stated): with no background configured the job saves the cropped
\* image directly and returns success; no text and no overlay is applied.
C4_NoBackgroundThenCroppedSavedAndSuccess ==
    (Done /\ Readable /\ ~BackgroundConfigured) =>
        /\ CroppedOnlyOutput /\ ReturnedTrue
        /\ stages = <<"Decoded", "Cropped", "SavedAlone">>

\* C4 (amended): with no background configured the job applies neither text
\* nor overlay, whatever text settings, text and overlay settings are present;
\* it saves the cropped image directly and returns success, unless that save
\* raises, and then it returns failure with nothing saved.
C4_NoBackgroundThenNoTextNoOverlay ==
    (Done /\ Readable /\ ~BackgroundConfigured) =>
        /\ final_img = <<>>
        /\ StageSet \cap {"Composited", "TextApplied", "OverlayApplied", "Saved"} = {}
        /\ \/ /\ CroppedOnlyOutput /\ ReturnedTrue /\ raised = <<>>
              /\ stages = <<"Decoded", "Cropped", "SavedAlone">>
           \/ NoOutput /\ ReturnedFalse /\ raised = <<"save_cropped">>

C4_Witness_NoBackgroundWithTextAndOverlaySettings ==
    /\ Done /\ ~BackgroundConfigured
    /\ compositor.text_processor /\ text = <<"Hello">>
    /\ compositor.overlay_settings # <<>>
    /\ CroppedOnlyOutput /\ ReturnedTrue

(***************************************************************************)
(* C5                                                                      *)
(***************************************************************************)
\* the crop region the configured insets describe is empty or inverted
InsetsLeaveNothing ==
    /\ img # <<>>
    /\ LET c == compositor.crop_settings
       IN  \/ c.left >= img[1].w - c.right
           \/ c.top >= img[1].h - c.bottom

\* C5: when left >= width - right or top >= height - bottom, the crop is
\* skipped: the original image is carried forward unchanged as the cropped
\* image, and the job goes on to its next step instead of being aborted.
C5_InvalidCropRegionKeepsOriginal ==
    /\ (Readable /\ pc \notin {"idle", "open", "crop"}) => cropped_img # <<>>
    /\ (cropped_img # <<>> /\ InsetsLeaveNothing) =>
          /\ cropped_img = img
          /\ pc \in {"save_cropped", "background"} => result = <<>> /\ raised = <<>>
          /\ ReturnedFalse => RaisedSteps \cap CroppedSaves # {}

C5_Witness_SkippedCropSavedOriginal ==
    /\ Done /\ InsetsLeaveNothing /\ compositor.crop_settings.top > 0
    /\ output_path # <<>>
    /\ output_path[1].kind = "cropped"
    /\ output_path[1].img = img[1]
    /\ ReturnedTrue

(***************************************************************************)
(* C6                                                                      *)
(***************************************************************************)
\* C6: for a valid crop region the cropped image is exactly the rectangle
\* the insets describe: width - left - right wide, height - top - bottom
\* high, its pixel (i, j) the source's pixel (left + i, top + j); with all
\* four insets zero it is the source image itself.
C6_ValidCropIsTheInsetRectangle ==
    cropped_img # <<>> =>
        LET c == compositor.crop_settings
            W == img[1].w
            H == img[1].h
            cropped == cropped_img[1]
        IN  /\ (c.left < W - c.right /\ c.top < H - c.bottom) =>
                  /\ cropped.w = W - c.left - c.right
                  /\ cropped.h = H - c.top - c.bottom
                  /\ \A i \in 0..(cropped.w - 1), j \in 0..(cropped.h - 1) :
                        Pixel(cropped, i, j) = Pixel(img[1], c.left + i, c.top + j)
            /\ (c.left = 0 /\ c.top = 0 /\ c.right = 0 /\ c.bottom = 0) =>
                  cropped = img[1]

C6_Witness_CroppedOnAllFourSides ==
    /\ Done /\ ReturnedTrue /\ cropped_img # <<>>
    /\ LET c == compositor.crop_settings
       IN  c.left > 0 /\ c.top > 0 /\ c.right > 0 /\ c.bottom > 0
    /\ cropped_img[1].w = 1 /\ cropped_img[1].h = 1
    /\ img[1].w = 3 /\ img[1].h = 3

(***************************************************************************)
(* C7                                                                      *)
(***************************************************************************)
\* C7: the resized foreground is as wide as the configured background width
\* and floor(width * croppedHeight / croppedWidth) high; the configured
\* background height plays no part.
C7_ResizedHeightIsFloorOfQuotient ==
    resized_img # <<>> =>
        LET targetWidth == compositor.background_settings[1].width
        IN  /\ resized_img[1].w = targetWidth
            /\ resized_img[1].h =
                   (targetWidth * cropped_img[1].h) \div cropped_img[1].w

(***************************************************************************)
(* C8                                                                      *)
(***************************************************************************)
\* a text processor is there and the text is a non-empty string
TextToDraw == compositor.text_processor /\ text # <<>> /\ text # <<"">>

\* C8: text is drawn on the composite exactly when a text processor exists
\* and the text for the job is non-empty; a job whose text is missing goes
\* on without text: the text step neither draws nor raises, and the
\* composite is completed.
C8_TextDrawnIffProcessorAndText ==
    /\ pc \in {"overlay", "save_final"} => (HasLayer(final_img, "text") <=> TextToDraw)
    /\ ("TextApplied" \in StageSet \/ "draw_text" \in RaisedSteps) => TextToDraw
    /\ CompositeOutput => (HasLayer(output_path[1].layers, "text") <=> TextToDraw)
    /\ (Done /\ text = <<>> /\ "Composited" \in StageSet /\ raised = <<>>) =>
          CompositeOutput /\ ReturnedTrue

C8_Witness_MissingTextJobComposited ==
    /\ Done /\ compositor.text_processor /\ text = <<>> /\ locale # <<>>
    /\ CompositeOutput /\ ReturnedTrue
    /\ ~HasLayer(output_path[1].layers, "text")

(***************************************************************************)
(* C9                                                                      *)
(***************************************************************************)
\* C9: when an overlay is configured and its file is found, every composite
\* of a batch run carries the overlay, pasted at its configured position in
\* its native size, as the topmost layer.
C9_BatchCompositeHasOverlayOnTop ==
    (/\ Done /\ CompositeOutput
     /\ run.via = "ImageProcessor"
     /\ run.overlay_settings # <<>>
     /\ [root |-> "base_dir/input", name |-> run.overlay_settings[1].file] \in env.files) =>
        LET layers == output_path[1].layers
            top == layers[Len(layers)]
        IN  /\ top.kind = "overlay"
            /\ top.at = <<run.overlay_settings[1].position_x,
                          run.overlay_settings[1].position_y>>
            /\ top.size = "native"

(***************************************************************************)
(* C10                                                                     *)
(***************************************************************************)
\* the locations the lookup is said to try, in order
LookupLocations(file) ==
    <<[root |-> "", name |-> file],
      [root |-> IF compositor.base_dir \in {<<>>, <<"">>} THEN "image_parent/input"
                ELSE "base_dir/input", name |-> file],
      [root |-> "base_dir", name |-> file]>>

\* the job went down the branch of a background file that is not there
BackgroundReportedMissing ==
    /\ BackgroundConfigured /\ cropped_img # <<>>
    /\ \/ Done /\ raised = <<>> /\ stages = <<"Decoded", "Cropped", "SavedAlone">>
       \/ raised # <<>> /\ raised[1] = "save_missing_background"

\* C10: the background file is looked up at the path as given, then in the
\* input root, then in the project base directory, and the first location
\* where it exists is used; it is missing only if it is at none of them.
C10_BackgroundLookupTriesThreeLocations ==
    LET locations == LookupLocations(compositor.background_settings[1].file)
        found == {k \in 1..3 : /\ locations[k] \in env.files
                                /\ k = 3 => compositor.base_dir \notin {<<>>, <<"">>}}
    IN  /\ BackgroundReportedMissing => found = {}
        /\ (BackgroundConfigured /\ final_img # <<>>) =>
              /\ found # {}
              /\ final_img[1].file =
                     locations[CHOOSE k \in found : \A m \in found : k <= m]

(***************************************************************************)
(* The batch run: ImageProcessor.process_images.                           *)
(*                                                                         *)
(* A file is [name, ext], its name a sequence of tokens; a locale is a     *)
(* string; an output path is [dir, stem, ext], dir the sequence of         *)
(* directories below output_dir.  What process_image does with one file is *)
(* summed up by its outcome: "composite" (the full composite was saved),   *)
(* "degraded" (the cropped image was saved alone) or "failed" (it returned *)
(* False).                                                                 *)
(***************************************************************************)
\* at most MaxFiles files in the input directory
MaxFiles == 2

ExportSettings(format, quality, keep_cropped, lossless) ==
    [format       |-> IF format \in {"png", "webp"} THEN format ELSE "png",
     quality      |-> IF quality < 1 \/ quality > 100 THEN 90 ELSE quality,
     keep_cropped |-> keep_cropped,
     lossless     |-> lossless]

supported_extensions == {".png", ".jpg", ".jpeg", ".psd"}

File(name, ext) == [name |-> name, ext |-> ext]

\* filename.lower().endswith('.psd')
IsPsd(file) == file.ext = ".psd"

PsdFiles(files) == SelectSeq(files, LAMBDA f : IsPsd(f))

RegularFiles(files) == SelectSeq(files, LAMBDA f : ~IsPsd(f))

\* _process_image: output_dir/[locale/]{name}[_{locale}]{ext}, .png for a PSD
ImageOutputPath(file, loc) ==
    LET path == IF loc # None
                THEN [dir  |-> <<The(loc)>>,
                      stem |-> file.name \o <<"_", The(loc)>>,
                      ext  |-> file.ext]
                ELSE [dir |-> <<>>, stem |-> file.name, ext |-> file.ext]
    IN  IF IsPsd(file) THEN [path EXCEPT !.ext = ".png"] ELSE path

\* _process_psd_for_all_locales: output_dir/{locale}/{name}_{locale}.png
PsdOutputPath(file, loc) ==
    [dir |-> <<loc>>, stem |-> file.name \o <<"_", loc>>, ext |-> ".png"]

\* Image.save(path): the format is the one registered for the path's extension
SaveFormat(path) ==
    CASE path.ext = ".png"  -> "png"
      [] path.ext = ".jpg"  -> "jpeg"
      [] path.ext = ".jpeg" -> "jpeg"
      [] path.ext = ".webp" -> "webp"

CompositorOutcomes == {"composite", "degraded", "failed"}

\* what process_image returns
ReturnValue(outcome) == outcome # "failed"

Job(file, loc) == [file |-> file, locale |-> loc]

\* a file written by a job, and what the caller of the job was told
Write(job, path) == [job |-> job, path |-> path, format |-> SaveFormat(path)]

Report(job, reported, outcome) ==
    [job |-> job, reported |-> reported, outcome |-> outcome]

\* a job that was skipped, and the output file that was found
Skip(job, path) == [job |-> job, path |-> path]

\* a run that never looks for existing output files
NeverSkip(skip_existing, existing, path) == FALSE

\* self.skip_existing and os.path.exists(output_path)
SkipExisting(skip_existing, existing, path) == skip_existing /\ path \in existing

\* the loops of process_images: which one runs, and where it stands
LoopPosition(b) ==
    IF b.phase = "psd" /\ b.i > Len(PsdFiles(b.files))
    THEN IF RegularFiles(b.files) = <<>>
         THEN [b EXCEPT !.phase = "return"]
         ELSE [b EXCEPT !.phase = "regular", !.i = 1, !.j = 1]
    ELSE IF b.phase = "regular" /\ b.j > Len(b.locales)
    THEN IF b.i >= Len(RegularFiles(b.files))
         THEN [b EXCEPT !.phase = "return"]
         ELSE [b EXCEPT !.i = b.i + 1, !.j = 1]
    ELSE IF b.phase = "plain" /\ b.i > Len(b.files)
    THEN [b EXCEPT !.phase = "return"]
    ELSE b

\* process_images up to the choice of its loop
ProcessImages ==
    /\ batch # <<>> /\ batch.phase = "start"
    /\ batch' = LoopPosition(
           [batch EXCEPT !.phase = IF batch.with_text /\ batch.locales # <<>>
                                   THEN "psd" ELSE "plain",
                         !.i = 1, !.j = 1])
    /\ UNCHANGED <<jobVars, pool, draw, libVars>>

\* one PSD file for all locales: _process_psd_for_all_locales
ProcessPsdForAllLocales ==
    /\ batch # <<>> /\ batch.phase = "psd"
    /\ LET file    == PsdFiles(batch.files)[batch.i]
           locs    == {batch.locales[k] : k \in 1..Len(batch.locales)}
           skipped == {l \in locs : SkipExisting(batch.skip_existing, batch.existing,
                                                 PsdOutputPath(file, l))}
           skips   == {Skip(Job(file, Some(l)), PsdOutputPath(file, l)) : l \in skipped}
           todo    == locs \ skipped
           jobs    == {Job(file, Some(l)) : l \in todo}
       IN  \/ \* every locale skipped: nothing is opened
              /\ todo = {}
              /\ batch' = LoopPosition(
                     [batch EXCEPT !.i = @ + 1,
                                   !.skipped = @ \cup skips,
                                   !.processed_count = @ + Cardinality(skipped)])
           \/ \* process_psd_for_multiple_locales ends in sys.exit(1)
              /\ todo # {}
              /\ batch' = [batch EXCEPT !.phase = "exited",
                                        !.skipped = @ \cup skips,
                                        !.attempted = @ \cup jobs]
           \/ \* it returns its results; the compositor runs on each export
              /\ todo # {}
              /\ \E fate \in [todo -> {"export_failed"} \cup CompositorOutcomes] :
                    LET done == {l \in todo : fate[l] # "export_failed"}
                    IN  batch' = LoopPosition(
                            [batch EXCEPT
                                !.i = @ + 1,
                                !.skipped = @ \cup skips,
                                !.attempted = @ \cup jobs,
                                !.processed_count =
                                    @ + Cardinality(done) + Cardinality(skipped),
                                !.existing =
                                    @ \cup {PsdOutputPath(file, l) : l \in done},
                                !.writes = @ \cup
                                    {Write(Job(file, Some(l)), PsdOutputPath(file, l)) :
                                        l \in done},
                                !.reports = @ \cup
                                    {Report(Job(file, Some(l)),
                                            fate[l] # "export_failed", fate[l]) :
                                        l \in todo}])
    /\ UNCHANGED <<jobVars, pool, draw, libVars>>

\* one regular file for one locale: get_text and _process_image in its try
ProcessImageForLocale ==
    /\ batch # <<>> /\ batch.phase = "regular"
    /\ LET file == RegularFiles(batch.files)[batch.i]
           loc  == batch.locales[batch.j]
           job  == Job(file, Some(loc))
           path == ImageOutputPath(file, Some(loc))
       IN  IF SkipExisting(batch.skip_existing, batch.existing, path)
           THEN batch' = LoopPosition(
                    [batch EXCEPT !.j = @ + 1,
                                  !.skipped = @ \cup {Skip(job, path)},
                                  !.processed_count = @ + 1])
           ELSE \E outcome \in CompositorOutcomes :
                    batch' = LoopPosition(
                        [batch EXCEPT
                            !.j = @ + 1,
                            !.attempted = @ \cup {job},
                            !.processed_count =
                                IF ReturnValue(outcome) THEN @ + 1 ELSE @,
                            !.existing =
                                IF ReturnValue(outcome) THEN @ \cup {path} ELSE @,
                            !.writes =
                                IF ReturnValue(outcome)
                                THEN @ \cup {Write(job, path)} ELSE @,
                            !.reports =
                                @ \cup {Report(job, ReturnValue(outcome), outcome)}])
    /\ UNCHANGED <<jobVars, pool, draw, libVars>>

\* one file without a locale: _process_image(image_file) in its try
ProcessImageWithoutLocale ==
    /\ batch # <<>> /\ batch.phase = "plain"
    /\ LET file == batch.files[batch.i]
           job  == Job(file, None)
           path == ImageOutputPath(file, None)
           done(reported, outcome) ==
               LoopPosition(
                   [batch EXCEPT
                       !.i = @ + 1,
                       !.attempted = @ \cup {job},
                       !.processed_count = IF reported THEN @ + 1 ELSE @,
                       !.existing = IF reported THEN @ \cup {path} ELSE @,
                       !.writes = IF reported THEN @ \cup {Write(job, path)} ELSE @,
                       !.reports = @ \cup {Report(job, reported, outcome)}])
       IN  \/ \* a regular file: a failed compositor raises, the loop goes on
              /\ ~IsPsd(file)
              /\ \E outcome \in CompositorOutcomes :
                    batch' = done(ReturnValue(outcome), outcome)
           \/ \* a PSD whose export succeeded: a failed compositor keeps the export
              /\ IsPsd(file)
              /\ \E outcome \in CompositorOutcomes : batch' = done(TRUE, outcome)
           \/ \* a PSD whose export returned False: _process_psd raises
              /\ IsPsd(file)
              /\ batch' = done(FALSE, "export_failed")
           \/ \* a PSD whose export raised: process_psd ends in sys.exit(1)
              /\ IsPsd(file)
              /\ batch' = [batch EXCEPT !.phase = "exited",
                                        !.attempted = @ \cup {job}]
    /\ UNCHANGED <<jobVars, pool, draw, libVars>>

\* return processed_count
ReturnProcessedCount ==
    /\ batch # <<>> /\ batch.phase = "return"
    /\ batch' = [batch EXCEPT !.phase = "returned"]
    /\ UNCHANGED <<jobVars, pool, draw, libVars>>

NextBatch ==
    \/ ProcessImages
    \/ ProcessPsdForAllLocales
    \/ ProcessImageForLocale
    \/ ProcessImageWithoutLocale
    \/ ReturnProcessedCount

\* the input directories, locales and configurations of the batch runs
FileNames == {File(<<"a">>, ".png"), File(<<"a">>, ".psd"), File(<<"a">>, ".jpg"),
              File(<<"b">>, ".jpeg")}

RECURSIVE Listings(_)
Listings(n) ==
    IF n = 0 THEN {<<>>}
    ELSE Listings(n - 1) \cup
         {Append(fs, f) : fs \in {l \in Listings(n - 1) : Len(l) = n - 1},
                          f \in FileNames}

\* a directory lists each file once
Listing(files) == \A k, m \in 1..Len(files) : k # m => files[k] # files[m]

LocaleLists == {<<>>, <<"de">>, <<"de", "fr">>}

ExportConfigs == {ExportSettings("png", 90, FALSE, FALSE),
                  ExportSettings("webp", 80, FALSE, FALSE),
                  ExportSettings("webp", 90, FALSE, TRUE)}

\* the output files found in the output directory before the run
ExistingOutputs == {ImageOutputPath(File(<<"a">>, ".png"), Some("de"))}

\* the job variables stay at a job that never starts
NoJob == [via |-> "direct", base_dir |-> None, crop_settings |-> NoCrop,
          background_settings |-> None, text_processor |-> FALSE,
          overlay_settings |-> None, source |-> None, files |-> {}]

InitBatch ==
    /\ InitJob(NoJob)
    /\ config = <<>>
    /\ locale_handler = <<>>
    /\ template = <<>>
    /\ \E files \in {l \in Listings(MaxFiles) : Listing(l)},
          locales \in LocaleLists,
          with_text \in BOOLEAN,
          export \in ExportConfigs,
          skip_existing \in BOOLEAN :
            batch = [files |-> files, locales |-> locales, with_text |-> with_text,
                     export_settings |-> export, skip_existing |-> skip_existing,
                     existing |-> IF skip_existing THEN ExistingOutputs ELSE {},
                     phase |-> "start", i |-> 1, j |-> 1, processed_count |-> 0,
                     skipped |-> {},
                     attempted |-> {}, writes |-> {}, reports |-> {}]
    /\ pool = <<>>
    /\ draw = <<>>

SpecBatch == InitBatch /\ [][NextBatch]_vars

(***************************************************************************)
(* C11                                                                     *)
(***************************************************************************)
\* C11: every output file of every job is written in the format the export
\* settings select (png or webp), whatever the extension of the source file.
C11_OutputFormatIsExportFormat ==
    \A w \in batch.writes : w.format = batch.export_settings.format

(***************************************************************************)
(* C12                                                                     *)
(***************************************************************************)
\* the (asset, locale) jobs of the run
AllJobs ==
    IF batch.with_text /\ batch.locales # <<>>
    THEN {Job(batch.files[k], Some(batch.locales[m])) :
              k \in 1..Len(batch.files), m \in 1..Len(batch.locales)}
    ELSE {Job(batch.files[k], None) : k \in 1..Len(batch.files)}

\* C12: a batch run attempts every (asset, locale) job: no failing job, a
\* design-file asset whose export fails included, aborts the run or keeps
\* the remaining jobs from being attempted.
C12_BatchAttemptsEveryJob ==
    /\ batch.phase # "exited"
    /\ (batch.phase = "returned" /\ ~batch.skip_existing) =>
          AllJobs \subseteq batch.attempted

(***************************************************************************)
(* C13                                                                     *)
(***************************************************************************)
\* C13: the result reported for a job tells a fully composited output from a
\* degraded one (the cropped image saved alone), so that a summary can count
\* fully composited, degraded and failed jobs apart.
C13_ReportTellsDegradedFromComposite ==
    \A r1, r2 \in batch.reports :
        (r1.outcome = "composite" /\ r2.outcome = "degraded") =>
            r1.reported # r2.reported

(***************************************************************************)
(* C14                                                                     *)
(***************************************************************************)
\* C14: within one batch run two distinct (asset, locale) jobs write to
\* different output paths, whatever the supported file names and locales.
C14_DistinctJobsWriteDistinctPaths ==
    \A w1, w2 \in batch.writes : w1.job # w2.job => w1.path # w2.path

(***************************************************************************)
(* Jobs side by side.  Each job is one _process_image call with a locale:  *)
(* it makes its locale directory (check, then create), and its draw_text   *)
(* call stores the locale on the shared text processor, selects the font   *)
(* and clears the locale again.  The steps of different jobs interleave in *)
(* every order.                                                            *)
(***************************************************************************)
\* the number of jobs that run side by side
MaxJobs == 2

PoolLocales == {"de", "fr"}

\* text_settings.font_files: always a "default", perhaps a font of a locale
FontFileDicts ==
    {[l \in {"default"} |-> "Arial.ttf"],
     [l \in {"default", "de"} |-> IF l = "de" THEN "De.ttf" ELSE "Arial.ttf"],
     [l \in {"default", "de", "fr"} |->
         IF l = "de" THEN "De.ttf" ELSE IF l = "fr" THEN "Fr.ttf" ELSE "Arial.ttf"]}

\* os.path.join(self.output_dir, locale)
LocaleOutputDir(loc) == <<loc>>

PoolJob(loc) == [locale |-> loc, pc |-> "check_dir", exists |-> FALSE, font |-> None]

\* if not os.path.exists(locale_output_dir)
CheckLocaleDir(k) ==
    /\ pool # <<>> /\ pool.jobs[k].pc = "check_dir"
    /\ LET found == LocaleOutputDir(pool.jobs[k].locale) \in pool.dirs
       IN  pool' = [pool EXCEPT !.jobs[k].exists = found,
                                !.jobs[k].pc = IF found THEN "store_locale"
                                               ELSE "make_dir"]
    /\ UNCHANGED <<jobVars, batch, draw, libVars>>

\* os.makedirs(locale_output_dir): FileExistsError when the directory is there
MakeLocaleDir(k) ==
    /\ pool # <<>> /\ pool.jobs[k].pc = "make_dir"
    /\ LET dir == LocaleOutputDir(pool.jobs[k].locale)
       IN  IF dir \in pool.dirs
           THEN pool' = [pool EXCEPT !.jobs[k].pc = "failed"]
           ELSE pool' = [pool EXCEPT !.dirs = @ \cup {dir},
                                     !.jobs[k].pc = "store_locale"]
    /\ UNCHANGED <<jobVars, batch, draw, libVars>>

\* draw_text: self.current_locale = locale
StoreCurrentLocale(k) ==
    /\ pool # <<>> /\ pool.jobs[k].pc = "store_locale"
    /\ pool' = [pool EXCEPT !.current_locale = Some(pool.jobs[k].locale),
                            !.jobs[k].pc = "select_font"]
    /\ UNCHANGED <<jobVars, batch, draw, libVars>>

\* faulty variant: the font is looked up under the locale stored on the processor
SelectFontOfStoredLocale(k) ==
    /\ pool # <<>> /\ pool.jobs[k].pc = "select_font"
    /\ LET loc == pool.current_locale
       IN  pool' = [pool EXCEPT
               !.jobs[k].font =
                   IF loc # None /\ The(loc) \in DOMAIN pool.font_files
                   THEN Some(pool.font_files[The(loc)])
                   ELSE Some(pool.font_files["default"]),
               !.jobs[k].pc = "clear_locale"]
    /\ UNCHANGED <<jobVars, batch, draw, libVars>>

\* draw_text: font_file from the locale argument, or the default
SelectFont(k) ==
    /\ pool # <<>> /\ pool.jobs[k].pc = "select_font"
    /\ LET loc == pool.jobs[k].locale
       IN  pool' = [pool EXCEPT
               !.jobs[k].font =
                   IF loc \in DOMAIN pool.font_files
                   THEN Some(pool.font_files[loc])
                   ELSE Some(pool.font_files["default"]),
               !.jobs[k].pc = "clear_locale"]
    /\ UNCHANGED <<jobVars, batch, draw, libVars>>

\* draw_text: self.current_locale = None
ClearCurrentLocale(k) ==
    /\ pool # <<>> /\ pool.jobs[k].pc = "clear_locale"
    /\ pool' = [pool EXCEPT !.current_locale = None, !.jobs[k].pc = "done"]
    /\ UNCHANGED <<jobVars, batch, draw, libVars>>

NextPool ==
    \/ \E k \in 1..MaxJobs : CheckLocaleDir(k)
    \/ \E k \in 1..MaxJobs : MakeLocaleDir(k)
    \/ \E k \in 1..MaxJobs : StoreCurrentLocale(k)
    \/ \E k \in 1..MaxJobs : SelectFont(k)
    \/ \E k \in 1..MaxJobs : ClearCurrentLocale(k)

InitPool ==
    /\ InitJob(NoJob)
    /\ config = <<>>
    /\ locale_handler = <<>>
    /\ template = <<>>
    /\ batch = <<>>
    /\ \E locales \in [1..MaxJobs -> PoolLocales],
          font_files \in FontFileDicts,
          dirs \in SUBSET {LocaleOutputDir(l) : l \in PoolLocales} :
            pool = [dirs |-> dirs, font_files |-> font_files,
                    current_locale |-> None,
                    jobs |-> [k \in 1..MaxJobs |-> PoolJob(locales[k])]]
    /\ draw = <<>>

SpecPool == InitPool /\ [][NextPool]_vars

(***************************************************************************)
(* C15                                                                     *)
(***************************************************************************)
\* C15: creating a locale output directory is safe when two jobs of the same
\* locale run side by side: in no interleaving does a job fail because the
\* other one created the directory first.
C15_NoJobFailsOnDirectoryCreatedByOther ==
    \A k \in 1..MaxJobs : pool.jobs[k].pc # "failed"

(***************************************************************************)
(* C16                                                                     *)
(***************************************************************************)
\* C16: jobs interleaved on one text processor do not influence each other:
\* the font of each job is the one its own locale argument selects (the font
\* of that locale if font_files has one, else the default), whatever the
\* other jobs stored on the processor before or during it.
C16_FontChosenFromOwnLocale ==
    \A k \in 1..MaxJobs :
        LET job == pool.jobs[k]
        IN  /\ job.pc \in {"clear_locale", "done"} =>
                  job.font = IF job.locale \in DOMAIN pool.font_files
                             THEN <<pool.font_files[job.locale]>>
                             ELSE <<pool.font_files["default"]>>
            /\ job.pc \notin {"clear_locale", "done"} => job.font = <<>>

\* a job has its own font although another job's locale is on the processor
C16_Witness_FontSelectedUnderForeignLocale ==
    \E k \in 1..MaxJobs :
        /\ pool.jobs[k].pc = "clear_locale"
        /\ pool.jobs[k].locale = "de"
        /\ pool.jobs[k].font = <<"De.ttf">>
        /\ pool.current_locale = <<"fr">>

(***************************************************************************)
(* Text layout: TextProcessor.draw_text.                                   *)
(*                                                                         *)
(* A text is a sequence of characters.  A font is known by its measure:    *)
(* the advance width and the height of each character; the width of a text *)
(* is the sum of its characters' widths, the height of a line the greatest *)
(* height of its characters.                                               *)
(***************************************************************************)
\* texts of at most MaxTextLen characters, box widths 1..MaxWrapWidth
MaxTextLen == 4
MaxWrapWidth == 4

Characters == {"a", "b", " "}

TextSettings(font_size, align, x, y, width, height, vertical_align) ==
    [font_size      |-> IF font_size <= 0 THEN 24 ELSE font_size,
     align          |-> IF align \in {"left", "center", "right"} THEN align ELSE "left",
     vertical_align |-> IF vertical_align \in {"top", "middle", "bottom"}
                        THEN vertical_align ELSE "top",
     x              |-> IF x < 0 THEN 0 ELSE x,
     y              |-> IF y < 0 THEN 0 ELSE y,
     width          |-> IF width <= 0 THEN 100 ELSE width,
     height         |-> IF height <= 0 THEN 100 ELSE height]

\* get_text_width(text): draw.textlength(text, font)
RECURSIVE get_text_width(_, _)
get_text_width(measure, s) ==
    IF s = <<>> THEN 0
    ELSE measure.width[Head(s)] + get_text_width(measure, Tail(s))

\* get_text_height(text): the height of font.getbbox(text)
RECURSIVE get_text_height(_, _)
get_text_height(measure, s) ==
    IF s = <<>> THEN 0
    ELSE LET h    == measure.height[Head(s)]
             rest == get_text_height(measure, Tail(s))
         IN  IF h >= rest THEN h ELSE rest

\* str.split(): the maximal runs of characters that are not whitespace
RECURSIVE SplitFrom(_, _, _)
SplitFrom(s, word, words) ==
    IF s = <<>> THEN IF word = <<>> THEN words ELSE Append(words, word)
    ELSE IF Head(s) = " "
    THEN SplitFrom(Tail(s), <<>>, IF word = <<>> THEN words ELSE Append(words, word))
    ELSE SplitFrom(Tail(s), Append(word, Head(s)), words)

Split(s) == SplitFrom(s, <<>>, <<>>)

\* a wrap that breaks the line already when the candidate measures max_width
RECURSIVE WrapWordsBelowWidth(_, _, _, _, _, _)
WrapWordsBelowWidth(words, k, current_line, lines, measure, max_width) ==
    IF k > Len(words)
    THEN IF current_line # <<>> THEN Append(lines, current_line) ELSE lines
    ELSE LET test_line == current_line \o <<" ">> \o words[k]
         IN  IF get_text_width(measure, test_line) < max_width
             THEN WrapWordsBelowWidth(words, k + 1, test_line, lines, measure, max_width)
             ELSE WrapWordsBelowWidth(words, k + 1, words[k],
                                      Append(lines, current_line), measure, max_width)

\* the loop of _wrap_text over words[k..], and its last append
RECURSIVE WrapWords(_, _, _, _, _, _)
WrapWords(words, k, current_line, lines, measure, max_width) ==
    IF k > Len(words)
    THEN IF current_line # <<>> THEN Append(lines, current_line) ELSE lines
    ELSE LET test_line == current_line \o <<" ">> \o words[k]
         IN  IF get_text_width(measure, test_line) <= max_width
             THEN WrapWords(words, k + 1, test_line, lines, measure, max_width)
             ELSE WrapWords(words, k + 1, words[k], Append(lines, current_line),
                            measure, max_width)

\* the wrap without the append of the last line
wrap_text_without_last_line(txt, measure, max_width) ==
    LET words == Split(txt)
        lines == WrapWords(words, 2, words[1], <<>>, measure, max_width)
    IN  IF words = <<>> THEN <<>> ELSE SubSeq(lines, 1, Len(lines) - 1)

\* _wrap_text(text, font, get_text_width_func, max_width)
wrap_text(txt, measure, max_width) ==
    LET words == Split(txt)
    IN  IF words = <<>> THEN <<>>
        ELSE WrapWords(words, 2, words[1], <<>>, measure, max_width)

\* lines: wrapped when the text is wider than the box, else the text itself
TextLines(txt, measure, width) ==
    IF get_text_width(measure, txt) > width
    THEN wrap_text(txt, measure, width)
    ELSE <<txt>>

\* line_spacing = int(self.text_settings.font_size * 0.2); 0.2 is the double 1/5
LineSpacing(font_size) == FloatToInt(FloatMulInt(font_size, FloatDiv(1, 5)))

RECURSIVE SumSeq(_)
SumSeq(q) == IF q = <<>> THEN 0 ELSE Head(q) + SumSeq(Tail(q))

\* total_text_height: the line heights and the spacing between the lines
TotalTextHeight(line_heights, line_spacing) ==
    SumSeq(line_heights) +
        (IF Len(line_heights) > 1 THEN line_spacing * (Len(line_heights) - 1) ELSE 0)

\* text_y with a halving that rounds toward zero
TextYTruncating(text_settings, total_text_height) ==
    LET free == text_settings.height - total_text_height
    IN  IF text_settings.vertical_align = "middle"
        THEN text_settings.y + (IF free >= 0 THEN free \div 2 ELSE -((-free) \div 2))
        ELSE IF text_settings.vertical_align = "bottom"
        THEN text_settings.y + free
        ELSE text_settings.y

\* text_y, by vertical_align
TextY(text_settings, total_text_height) ==
    IF text_settings.vertical_align = "middle"
    THEN text_settings.y + ((text_settings.height - total_text_height) \div 2)
    ELSE IF text_settings.vertical_align = "bottom"
    THEN text_settings.y + (text_settings.height - total_text_height)
    ELSE text_settings.y

\* line_x kept inside the box on its left
LineXClamped(text_settings, line_width) ==
    LET free == IF text_settings.width >= line_width
                THEN text_settings.width - line_width ELSE 0
    IN  IF text_settings.align = "center" THEN text_settings.x + (free \div 2)
        ELSE IF text_settings.align = "right" THEN text_settings.x + free
        ELSE text_settings.x

\* line_x, by align
LineX(text_settings, line_width) ==
    IF text_settings.align = "center"
    THEN text_settings.x + ((text_settings.width - line_width) \div 2)
    ELSE IF text_settings.align = "right"
    THEN text_settings.x + (text_settings.width - line_width)
    ELSE text_settings.x

\* lines stacked without the spacing between them
RECURSIVE CurrentYWithoutSpacing(_, _, _, _)
CurrentYWithoutSpacing(text_y, line_heights, line_spacing, i) ==
    IF i = 1 THEN text_y
    ELSE CurrentYWithoutSpacing(text_y, line_heights, line_spacing, i - 1)
             + line_heights[i - 1]

\* current_y of line i: text_y and the heights and spacings of the lines above
RECURSIVE CurrentY(_, _, _, _)
CurrentY(text_y, line_heights, line_spacing, i) ==
    IF i = 1 THEN text_y
    ELSE CurrentY(text_y, line_heights, line_spacing, i - 1)
             + line_heights[i - 1] + line_spacing

\* draw.text((line_x, current_y), line, ...)
DrawnLine(line, line_x, current_y) == [line |-> line, x |-> line_x, y |-> current_y]

\* one call of draw_text(img, text, locale), from entry to return
draw_text ==
    /\ draw # <<>> /\ draw.pc = "call"
    /\ IF draw.text = <<>>
       THEN draw' = [draw EXCEPT !.pc = "returned"]
       ELSE LET settings     == draw.text_settings
                lines        == TextLines(draw.text, draw.measure, settings.width)
                line_heights == [i \in 1..Len(lines) |->
                                    get_text_height(draw.measure, lines[i])]
                line_spacing == LineSpacing(settings.font_size)
                total        == TotalTextHeight(line_heights, line_spacing)
                text_y       == TextY(settings, total)
            IN  draw' = [draw EXCEPT
                    !.pc = "returned",
                    !.lines = lines,
                    !.line_heights = line_heights,
                    !.line_spacing = line_spacing,
                    !.total_text_height = total,
                    !.text_y = text_y,
                    !.drawn =
                        [i \in 1..Len(lines) |->
                            DrawnLine(lines[i],
                                      LineX(settings,
                                            get_text_width(draw.measure, lines[i])),
                                      CurrentY(text_y, line_heights, line_spacing, i))]]
    /\ UNCHANGED <<jobVars, batch, pool, libVars>>

NextDraw == draw_text

\* the texts, measures and text boxes of the calls
RECURSIVE Texts(_)
Texts(n) ==
    IF n = 0 THEN {<<>>}
    ELSE Texts(n - 1) \cup
         {Append(t, c) : t \in {u \in Texts(n - 1) : Len(u) = n - 1}, c \in Characters}

\* two longer texts: "a a bb" and "a b a b"
SampleTexts == {<<"a", " ", "a", " ", "b", "b">>,
                <<"a", " ", "b", " ", "a", " ", "b">>}

\* a narrow and a wide letter; and a font of letters 50 wide and 20 high
SmallMeasure == [width  |-> [c \in Characters |-> IF c = "b" THEN 2 ELSE 1],
                 height |-> [c \in Characters |->
                                IF c = "b" THEN 3 ELSE IF c = "a" THEN 2 ELSE 0]]

LargeMeasure == [width  |-> [c \in Characters |-> IF c = " " THEN 12 ELSE 50],
                 height |-> [c \in Characters |-> IF c = " " THEN 0 ELSE 20]]

Aligns == {"left", "center", "right"}

VerticalAligns == {"top", "middle", "bottom"}

DrawCall(text_settings, measure, t) ==
    [text_settings |-> text_settings, measure |-> measure, text |-> t, pc |-> "call",
     lines |-> <<>>, line_heights |-> <<>>, line_spacing |-> 0,
     total_text_height |-> 0, text_y |-> 0, drawn |-> <<>>]

DrawCalls ==
    {DrawCall(TextSettings(5, align, 1, 1, width, height, vertical_align),
              SmallMeasure, t) :
        align \in Aligns, vertical_align \in VerticalAligns,
        width \in 1..MaxWrapWidth, height \in {1, 2 * MaxWrapWidth},
        t \in Texts(MaxTextLen) \cup SampleTexts}
    \cup
    {DrawCall(TextSettings(24, align, 10, 10, 200, 100, vertical_align),
              LargeMeasure, t) :
        align \in Aligns, vertical_align \in VerticalAligns, t \in Texts(MaxTextLen)}

InitDraw ==
    /\ InitJob(NoJob)
    /\ config = <<>>
    /\ locale_handler = <<>>
    /\ template = <<>>
    /\ batch = <<>>
    /\ pool = <<>>
    /\ draw \in DrawCalls

SpecDraw == InitDraw /\ [][NextDraw]_vars

(***************************************************************************)
(* The claims about the text layout.                                       *)
(***************************************************************************)
Drawn == draw # <<>> /\ draw.pc = "returned" /\ draw.text # <<>>

\* the whitespace-split words of the lines, in order
RECURSIVE WordsOfLines(_)
WordsOfLines(lines) ==
    IF lines = <<>> THEN <<>> ELSE Split(Head(lines)) \o WordsOfLines(Tail(lines))

\* C17: for every text and every maximal width, the whitespace-split words of
\* the wrapped lines, concatenated in order, are exactly the whitespace-split
\* words of the text: no word is dropped, duplicated, reordered or split.  It
\* holds of the lines draw_text lays out and of _wrap_text at every width.
C17_WrappedLinesKeepTheWords ==
    Drawn =>
        /\ WordsOfLines(draw.lines) = Split(draw.text)
        /\ \A max_width \in 1..MaxWrapWidth :
              WordsOfLines(wrap_text(draw.text, draw.measure, max_width))
                  = Split(draw.text)

\* a text with a run of spaces wrapped into several lines, one of them a word
\* wider than the box
C17_Witness_WrappedWithOverlongWord ==
    /\ Drawn
    /\ Len(draw.lines) >= 2
    /\ \E i \in 1..Len(draw.lines) :
          /\ get_text_width(draw.measure, draw.lines[i]) > draw.text_settings.width
          /\ Len(Split(draw.lines[i])) = 1
    /\ \E i \in 1..(Len(draw.text) - 1) : draw.text[i] = " " /\ draw.text[i + 1] = " "

\* C18: for a fixed text and a fixed width measure, a larger maximal width
\* never gives more lines, the case where the whole text fits and is laid
\* out as one unwrapped line included.
C18_WiderBoxNeverMoreLines ==
    Drawn =>
        \A wider \in draw.text_settings.width .. (draw.text_settings.width + MaxWrapWidth) :
            Len(TextLines(draw.text, draw.measure, wider)) <= Len(draw.lines)

\* C19: the vertical start of the text block is box.y for top, box.y plus
\* (box.height - totalHeight) integer-divided by 2 (rounded down) for middle,
\* and box.y + box.height - totalHeight for bottom; the first line is drawn
\* there.
C19_VerticalStartByAlignment ==
    Drawn =>
        LET box   == draw.text_settings
            start == CASE box.vertical_align = "top" -> box.y
                       [] box.vertical_align = "middle" ->
                              box.y + ((box.height - draw.total_text_height) \div 2)
                       [] box.vertical_align = "bottom" ->
                              box.y + box.height - draw.total_text_height
        IN  /\ draw.text_y = start
            /\ draw.drawn # <<>> => draw.drawn[1].y = start

\* the box of y 10 and height 100 with one line of height 20, bottom-aligned:
\* the line is drawn at y 90
C19_Witness_BottomAlignedLineAt90 ==
    /\ Drawn
    /\ draw.text_settings.vertical_align = "bottom"
    /\ draw.text_settings.y = 10
    /\ draw.text_settings.height = 100
    /\ Len(draw.lines) = 1
    /\ draw.line_heights = <<20>>
    /\ draw.total_text_height = 20
    /\ draw.drawn[1].y = 90

\* C20: every line is drawn at box.x for left, at box.x plus
\* (box.width - lineWidth) integer-divided by 2 for center and at
\* box.x + box.width - lineWidth for right, with the width of that line
\* itself; the position is never clamped, so a line wider than the box is
\* drawn left of box.x under center and right.
C20_LineXByAlignmentOfItsOwnWidth ==
    Drawn =>
        /\ Len(draw.drawn) = Len(draw.lines)
        /\ \A i \in 1..Len(draw.drawn) :
              LET box       == draw.text_settings
                  lineWidth == get_text_width(draw.measure, draw.lines[i])
              IN  /\ draw.drawn[i].line = draw.lines[i]
                  /\ draw.drawn[i].x =
                        CASE box.align = "left" -> box.x
                          [] box.align = "center" ->
                                 box.x + ((box.width - lineWidth) \div 2)
                          [] box.align = "right" -> box.x + box.width - lineWidth
                  /\ (box.align # "left" /\ lineWidth > box.width)
                        => draw.drawn[i].x < box.x

\* centred lines of different widths, one of them wider than the box and
\* drawn left of it, another drawn inside the box
C20_Witness_WideLineLeftOfBox ==
    /\ Drawn
    /\ draw.text_settings.align = "center"
    /\ \E i, j \in 1..Len(draw.drawn) :
          /\ get_text_width(draw.measure, draw.lines[i]) > draw.text_settings.width
          /\ draw.drawn[i].x < draw.text_settings.x
          /\ draw.drawn[j].x > draw.text_settings.x

(***************************************************************************)
(* Settings objects: their construction from raw values, and the font file *)
(* draw_text selects from validated text settings.                         *)
(***************************************************************************)
\* a raw font_files value: a dictionary with its entries, or something else
FontFilesValue(is_dict, entries) == [is_dict |-> is_dict, entries |-> entries]

\* font_files taken as given, without validation
FontFilesAsGiven(font_files) == font_files.entries

\* TextSettings._validate: font_files must be a dictionary with a "default"
FontFiles(font_files) ==
    IF ~font_files.is_dict \/ "default" \notin DOMAIN font_files.entries
    THEN [l \in {"default"} |-> "Arial.ttf"]
    ELSE font_files.entries

\* CropSettings(top, left, right, bottom) is called
NewCropSettings ==
    /\ config # <<>> /\ config.kind = "crop" /\ config.pc = "raw"
    /\ config' = [config EXCEPT
           !.pc = "built",
           !.crop_settings = Some(CropSettings(config.top, config.left,
                                               config.right, config.bottom))]
    /\ UNCHANGED <<jobVars, batch, pool, draw, locale_handler, template>>

\* TextSettings(font_files, ...) is called
NewTextSettings ==
    /\ config # <<>> /\ config.kind = "text" /\ config.pc = "raw"
    /\ config' = [config EXCEPT
           !.pc = "built",
           !.font_files = Some(FontFiles(config.raw_font_files))]
    /\ UNCHANGED <<jobVars, batch, pool, draw, locale_handler, template>>

\* draw_text selects font_file for its locale argument; a missing key raises
SelectFontFile ==
    /\ config # <<>> /\ config.kind = "text" /\ config.pc = "built"
    /\ LET font_files == The(config.font_files)
           loc        == config.locale
       IN  IF Truthy(loc) /\ The(loc) \in DOMAIN font_files
           THEN config' = [config EXCEPT !.pc = "selected",
                                         !.font_file = Some(font_files[The(loc)])]
           ELSE IF "default" \in DOMAIN font_files
           THEN config' = [config EXCEPT !.pc = "selected",
                                         !.font_file = Some(font_files["default"])]
           ELSE config' = [config EXCEPT !.pc = "raised"]
    /\ UNCHANGED <<jobVars, batch, pool, draw, locale_handler, template>>

NextSettings == NewCropSettings \/ NewTextSettings \/ SelectFontFile

\* raw crop values, negative ones included
RawCrops ==
    {[kind |-> "crop", pc |-> "raw", top |-> t, left |-> l, right |-> r, bottom |-> b,
      crop_settings |-> None] :
        t \in (-2)..MaxInset, l \in (-2)..MaxInset, r \in (-2)..MaxInset,
        b \in (-2)..MaxInset}

FontOf(l) ==
    IF l = "de" THEN "De.ttf" ELSE IF l = "fr" THEN "Fr.ttf" ELSE "Default.ttf"

\* raw font_files: every dictionary over "default", "de", "fr", and a string
RawFontFiles ==
    {FontFilesValue(TRUE, [l \in keys |-> FontOf(l)]) :
        keys \in SUBSET {"default", "de", "fr"}}
    \cup {FontFilesValue(FALSE, [l \in {"de"} |-> "De.ttf"])}

\* the locale argument: None, the empty string, or a locale code
LocaleArguments == {None, Some(""), Some("de"), Some("fr"), Some("es")}

RawTexts ==
    {[kind |-> "text", pc |-> "raw", raw_font_files |-> ff, locale |-> loc,
      font_files |-> None, font_file |-> None] :
        ff \in RawFontFiles, loc \in LocaleArguments}

InitSettings ==
    /\ InitJob(NoJob)
    /\ batch = <<>>
    /\ pool = <<>>
    /\ draw = <<>>
    /\ locale_handler = <<>>
    /\ template = <<>>
    /\ config \in RawCrops \cup RawTexts

SpecSettings == InitSettings /\ [][NextSettings]_vars

\* C21: font resolution is total: for a locale with its own entry in the
\* validated font_files it yields that entry, for every other locale value
\* and for no locale it yields the "default" entry, which validated text
\* settings always contain; the selection never fails on a missing key.
C21_FontResolutionIsTotal ==
    (config # <<>> /\ config.kind = "text") =>
        /\ config.pc # "raised"
        /\ config.font_files # <<>> => "default" \in DOMAIN The(config.font_files)
        /\ config.pc = "selected" =>
              LET font_files == The(config.font_files)
              IN  config.font_file =
                      IF config.locale # <<>> /\ The(config.locale) \in DOMAIN font_files
                      THEN Some(font_files[The(config.locale)])
                      ELSE Some(font_files["default"])

\* a locale without its own entry, under raw font_files that lacked a
\* "default": the built-in default font is selected
C21_Witness_DefaultOfRepairedFontFiles ==
    /\ config # <<>> /\ config.kind = "text" /\ config.pc = "selected"
    /\ config.raw_font_files.is_dict
    /\ "default" \notin DOMAIN config.raw_font_files.entries
    /\ "de" \in DOMAIN config.raw_font_files.entries
    /\ config.locale = Some("fr")
    /\ config.font_file = Some("Arial.ttf")

\* C22: every constructed CropSettings has top, left, right and bottom >= 0:
\* a negative inset given at construction is replaced by 0 and the other
\* insets are left as given.
C22_ConstructedInsetsNonNegative ==
    (config # <<>> /\ config.kind = "crop" /\ config.pc = "built") =>
        LET c == The(config.crop_settings)
        IN  /\ c.top >= 0 /\ c.left >= 0 /\ c.right >= 0 /\ c.bottom >= 0
            /\ c.top = (IF config.top < 0 THEN 0 ELSE config.top)
            /\ c.left = (IF config.left < 0 THEN 0 ELSE config.left)
            /\ c.right = (IF config.right < 0 THEN 0 ELSE config.right)
            /\ c.bottom = (IF config.bottom < 0 THEN 0 ELSE config.bottom)

\* one negative inset among positive ones: only that one became 0
C22_Witness_NegativeInsetAmongPositive ==
    /\ config # <<>> /\ config.kind = "crop" /\ config.pc = "built"
    /\ config.left < 0 /\ config.top > 0 /\ config.right > 0 /\ config.bottom > 0
    /\ The(config.crop_settings) =
           [top |-> config.top, left |-> 0, right |-> config.right,
            bottom |-> config.bottom]

(***************************************************************************)
(* LocaleHandler.get_text.  A locale's texts are a dictionary (a function  *)
(* from keys to texts) or an array (a sequence of texts, element 0 first). *)
(***************************************************************************)
\* the indices 0..MaxIndex the callers pass, arrays of up to MaxTexts texts
MaxIndex == 2
MaxTexts == 2

DictTexts(entries) == [is_dict |-> TRUE, entries |-> entries, items |-> <<>>]

ListTexts(items) == [is_dict |-> FALSE, entries |-> <<>>, items |-> items]

\* f"Text_{key_index}"
TextKey(key_index) == "Text_" \o ToString(key_index)

\* str(index)
IndexKey(index) == ToString(index)

\* get_text that looks up str(index) before "Text_X"
GetTextIndexKeyFirst(locales, locale_code, index, add_one) ==
    IF locale_code \notin DOMAIN locales THEN None
    ELSE LET texts == locales[locale_code]
             key   == TextKey(IF add_one THEN index + 1 ELSE index)
         IN  IF texts.is_dict
             THEN IF IndexKey(index) \in DOMAIN texts.entries
                  THEN Some(texts.entries[IndexKey(index)])
                  ELSE IF key \in DOMAIN texts.entries
                  THEN Some(texts.entries[key])
                  ELSE None
             ELSE IF index >= Len(texts.items) THEN None
                  ELSE Some(texts.items[index + 1])

\* LocaleHandler.get_text(locale_code, index, add_one): the returned value
GetText(locales, locale_code, index, add_one) ==
    IF locale_code \notin DOMAIN locales THEN None
    ELSE LET texts == locales[locale_code]
             key   == TextKey(IF add_one THEN index + 1 ELSE index)
         IN  IF texts.is_dict
             THEN IF key \in DOMAIN texts.entries
                  THEN Some(texts.entries[key])
                  ELSE IF IndexKey(index) \in DOMAIN texts.entries
                  THEN Some(texts.entries[IndexKey(index)])
                  ELSE None
             ELSE IF index >= Len(texts.items) THEN None
                  ELSE Some(texts.items[index + 1])

\* one call of get_text
get_text ==
    /\ locale_handler # <<>> /\ locale_handler.pc = "call"
    /\ locale_handler' = [locale_handler EXCEPT
           !.pc = "returned",
           !.returned = GetText(locale_handler.locales, locale_handler.locale_code,
                                locale_handler.index, locale_handler.add_one)]
    /\ UNCHANGED <<jobVars, batch, pool, draw, config, template>>

NextLocale == get_text

\* the keys a locale dictionary may hold, each with a text of its own
LocaleKeys == {TextKey(k) : k \in 0..(MaxIndex + 1)} \cup {IndexKey(k) : k \in 0..MaxIndex}

LocaleDicts == {DictTexts([k \in keys |-> "text of " \o k]) : keys \in SUBSET LocaleKeys}

LocaleArrays ==
    {ListTexts([i \in 1..n |-> "text " \o ToString(i - 1)]) : n \in 0..MaxTexts}

\* the loaded locales: none, or "de" with its texts
LoadedLocales ==
    {<<>>} \cup {[l \in {"de"} |-> texts] : texts \in LocaleDicts \cup LocaleArrays}

InitLocale ==
    /\ InitJob(NoJob)
    /\ batch = <<>>
    /\ pool = <<>>
    /\ draw = <<>>
    /\ config = <<>>
    /\ template = <<>>
    /\ \E locales \in LoadedLocales, locale_code \in {"de", "es"},
          index \in 0..MaxIndex, add_one \in BOOLEAN :
            locale_handler = [locales |-> locales, locale_code |-> locale_code,
                              index |-> index, add_one |-> add_one,
                              pc |-> "call", returned |-> None]

SpecLocale == InitLocale /\ [][NextLocale]_vars

\* C23: get_text returns, for a dictionary-backed locale, the value at key
\* "Text_{index+1}" ("Text_{index}" when add_one is false) if present, else
\* the value at key "{index}" if present, else None; for an array-backed
\* locale the element at position index, and None for every index outside
\* the array's range; and None for an unknown locale.
C23_GetTextByKeyThenIndex ==
    (locale_handler # <<>> /\ locale_handler.pc = "returned") =>
        LET h == locale_handler
        IN  IF h.locale_code \notin DOMAIN h.locales
            THEN h.returned = None
            ELSE LET texts == h.locales[h.locale_code]
                     key   == IF h.add_one THEN TextKey(h.index + 1)
                                           ELSE TextKey(h.index)
                 IN  IF texts.is_dict
                     THEN /\ key \in DOMAIN texts.entries
                                => h.returned = Some(texts.entries[key])
                          /\ (key \notin DOMAIN texts.entries
                                /\ IndexKey(h.index) \in DOMAIN texts.entries)
                                => h.returned = Some(texts.entries[IndexKey(h.index)])
                          /\ (key \notin DOMAIN texts.entries
                                /\ IndexKey(h.index) \notin DOMAIN texts.entries)
                                => h.returned = None
                     ELSE /\ h.index \in 0..(Len(texts.items) - 1)
                                => h.returned = Some(texts.items[h.index + 1])
                          /\ h.index \notin 0..(Len(texts.items) - 1)
                                => h.returned = None

\* add_one false, index 1, a dictionary with "Text_2" and "1" but no
\* "Text_1": the text at "1" is returned
C23_Witness_FallsBackToIndexKey ==
    /\ locale_handler # <<>> /\ locale_handler.pc = "returned"
    /\ locale_handler.locale_code \in DOMAIN locale_handler.locales
    /\ locale_handler.locales[locale_handler.locale_code].is_dict
    /\ ~locale_handler.add_one
    /\ locale_handler.index = 1
    /\ "Text_1" \notin DOMAIN locale_handler.locales[locale_handler.locale_code].entries
    /\ "Text_2" \in DOMAIN locale_handler.locales[locale_handler.locale_code].entries
    /\ "1" \in DOMAIN locale_handler.locales[locale_handler.locale_code].entries
    /\ locale_handler.returned = Some("text of 1")

(***************************************************************************)
(* C24                                                                     *)
(***************************************************************************)
\* the run works through (file, locale) jobs
LocaleRun == batch # <<>> /\ batch.with_text /\ batch.locales # <<>>

SkippedJobs == {s.job : s \in batch.skipped}

\* C24: with skip-existing enabled, a (file, locale) job whose output file
\* already exists is not processed: no compositor or design-tool call is made
\* for it, nothing is written for it and the files found before the run are
\* not written again, and it is counted in the processed count the run
\* returns; the jobs whose output does not exist are processed.  Without
\* skip-existing no job is skipped.
C24_SkipExistingLeavesOutputAlone ==
    batch # <<>> =>
        /\ ~batch.skip_existing => batch.skipped = {}
        /\ \A s \in batch.skipped :
              /\ s.path \in batch.existing
              /\ s.job \notin batch.attempted
              /\ \A w \in batch.writes : w.job # s.job
        /\ (LocaleRun /\ batch.skip_existing) =>
              \A w \in batch.writes : w.path \notin ExistingOutputs
        /\ (LocaleRun /\ batch.phase = "returned") =>
              /\ batch.processed_count =
                     Cardinality(batch.skipped)
                       + Cardinality({r \in batch.reports : r.reported})
              /\ AllJobs \subseteq SkippedJobs \cup batch.attempted

\* a returned run that skipped a.png for de, whose output was found, and
\* processed a.png for fr; both are counted
C24_Witness_OneSkippedOneProcessed ==
    /\ LocaleRun /\ batch.skip_existing /\ batch.phase = "returned"
    /\ batch.files = <<File(<<"a">>, ".png")>>
    /\ batch.locales = <<"de", "fr">>
    /\ SkippedJobs = {Job(File(<<"a">>, ".png"), Some("de"))}
    /\ batch.attempted = {Job(File(<<"a">>, ".png"), Some("fr"))}
    /\ \E w \in batch.writes : w.job = Job(File(<<"a">>, ".png"), Some("fr"))
    /\ batch.processed_count = 2

(***************************************************************************)
(* C25                                                                     *)
(***************************************************************************)
\* the transitions of the stated machine
MachineSteps ==
    {<<"Decoded", "Cropped">>, <<"Cropped", "SavedAlone">>, <<"Cropped", "Composited">>,
     <<"Composited", "TextApplied">>, <<"Composited", "OverlayApplied">>,
     <<"Composited", "Saved">>, <<"TextApplied", "OverlayApplied">>,
     <<"TextApplied", "Saved">>, <<"OverlayApplied", "Saved">>}

\* a cropped-only save after the canvas was composed
FallbackSteps ==
    {<<"Composited", "SavedAlone">>, <<"TextApplied", "SavedAlone">>,
     <<"OverlayApplied", "SavedAlone">>}

StagesFollow(steps) ==
    /\ stages # <<>> => stages[1] = "Decoded"
    /\ \A i \in 1..(Len(stages) - 1) : <<stages[i], stages[i + 1]>> \in steps

\* C25 as stated: within a job the stages happen only in the order Decoded,
\* Cropped, then either Saved-alone or Composited, optional TextApplied,
\* optional OverlayApplied, Saved; no other transition occurs, in particular
\* none from Composited or TextApplied to a cropped-only save.
C25_StagesFollowTheMachine == StagesFollow(MachineSteps)

\* C25, amended: the stages follow the machine, except that a cropped-only
\* save also follows Composited, TextApplied or OverlayApplied, and only when
\* drawing the text, applying the overlay or saving the canvas raised; text
\* is never drawn after the overlay and nothing follows a save.
C25_StagesFollowTheMachineOrFallBack ==
    /\ StagesFollow(MachineSteps \cup FallbackSteps)
    /\ (\E i \in 1..(Len(stages) - 1) : <<stages[i], stages[i + 1]>> \in FallbackSteps)
          => RaisedSteps \cap {"draw_text", "overlay", "save_final"} # {}

\* text and overlay were applied, the save of the canvas raised, and the
\* cropped image was saved alone
C25_Witness_CroppedSavedAfterOverlay ==
    /\ Done
    /\ stages = <<"Decoded", "Cropped", "Composited", "TextApplied", "OverlayApplied",
                  "SavedAlone">>
    /\ raised = <<"save_final">>
    /\ CroppedOnlyOutput

(***************************************************************************)
(* C26                                                                     *)
(***************************************************************************)
OverlayMissing ==
    compositor.overlay_settings # <<>> /\ ~IsFile(OverlayPath(compositor))

\* C26: when overlay settings are configured but the overlay file is missing,
\* only the overlay layer is skipped: the overlay step does not raise, and a
\* job that composed its canvas and had no step raise saves an output with
\* background, foreground and the text there is to draw, without an overlay,
\* and reports success.
C26_MissingOverlaySkipsOnlyTheOverlay ==
    OverlayMissing =>
        /\ "overlay" \notin RaisedSteps
        /\ "OverlayApplied" \notin StageSet
        /\ (Done /\ "Composited" \in StageSet /\ raised = <<>>) =>
              /\ CompositeOutput /\ ReturnedTrue
              /\ stages[Len(stages)] = "Saved"
              /\ LET layers == output_path[1].layers
                 IN  /\ layers[1].kind = "background"
                     /\ layers[2].kind = "foreground"
                     /\ HasLayer(layers, "text") <=> TextToDraw
                     /\ ~HasLayer(layers, "overlay")

\* a job with text whose overlay file is missing: background, foreground
\* and text are saved, and the job reports success
C26_Witness_CompositeWithTextWithoutOverlay ==
    /\ Done /\ OverlayMissing /\ TextToDraw
    /\ CompositeOutput /\ ReturnedTrue
    /\ Len(output_path[1].layers) = 3
    /\ output_path[1].layers[3].kind = "text"

(***************************************************************************)
(* C27, C28                                                                *)
(***************************************************************************)
\* the lines are a greedy wrap at max_width under the measure
Greedy(lines, measure, max_width) ==
    /\ \A i \in 1..Len(lines) :
          /\ Len(Split(lines[i])) >= 2 => get_text_width(measure, lines[i]) <= max_width
          /\ get_text_width(measure, lines[i]) > max_width => Len(Split(lines[i])) = 1
    /\ \A i \in 1..(Len(lines) - 1) :
          get_text_width(measure, lines[i] \o <<" ">> \o Split(lines[i + 1])[1]) > max_width

\* C27: wrapping is greedy: every output line holding two or more words
\* measures <= maxWidth, a line exceeds maxWidth only if it is a single word,
\* and at every line break the previous line joined by a space with the next
\* line's first word measures > maxWidth.  It holds of the lines draw_text
\* wraps and of _wrap_text at every width.
C27_WrapIsGreedy ==
    Drawn =>
        /\ get_text_width(draw.measure, draw.text) > draw.text_settings.width
              => Greedy(draw.lines, draw.measure, draw.text_settings.width)
        /\ \A max_width \in 1..MaxWrapWidth :
              Greedy(wrap_text(draw.text, draw.measure, max_width), draw.measure, max_width)

\* "a a bb" in a box of width 3: "a a" fills the box exactly, and "bb", wider
\* than the box, is a line of its own
C27_Witness_FullLineThenOverlongWord ==
    /\ Drawn
    /\ draw.text = <<"a", " ", "a", " ", "b", "b">>
    /\ draw.text_settings.width = 3
    /\ draw.lines = <<<<"a", " ", "a">>, <<"b", "b">>>>
    /\ get_text_width(draw.measure, draw.lines[1]) = 3
    /\ get_text_width(draw.measure, draw.lines[2]) > 3

\* the heights and spacings of the lines before line i
RECURSIVE Above(_, _, _, _)
Above(lines, measure, spacing, i) ==
    IF i = 1 THEN 0
    ELSE Above(lines, measure, spacing, i - 1)
             + get_text_height(measure, lines[i - 1]) + spacing

\* C28: the lines are drawn in their original order, line i at
\* y = startY + the sum over the earlier lines of (lineHeight + lineSpacing),
\* with lineSpacing = floor(fontSize * 0.2); the distance from the first
\* line's top to the last line's bottom is exactly
\* totalHeight = sum(lineHeights) + lineSpacing * (lineCount - 1); with bottom
\* alignment the last line ends exactly at box.y + box.height.
C28_LinesStackedBySpacing ==
    Drawn =>
        LET box     == draw.text_settings
            n       == Len(draw.lines)
            spacing == box.font_size \div 5
            bottom(i) == draw.drawn[i].y + get_text_height(draw.measure, draw.lines[i])
        IN  /\ draw.line_spacing = spacing
            /\ Len(draw.drawn) = n
            /\ \A i \in 1..n :
                  /\ draw.drawn[i].line = draw.lines[i]
                  /\ draw.drawn[i].y =
                         draw.text_y + Above(draw.lines, draw.measure, spacing, i)
            /\ n >= 1 =>
                  /\ draw.total_text_height =
                         Above(draw.lines, draw.measure, spacing, n)
                             + get_text_height(draw.measure, draw.lines[n])
                  /\ bottom(n) - draw.drawn[1].y = draw.total_text_height
                  /\ box.vertical_align = "bottom" => bottom(n) = box.y + box.height

\* several bottom-aligned lines with a spacing between them: the last one
\* ends at the bottom of the box
C28_Witness_BottomAlignedStack ==
    /\ Drawn
    /\ draw.text_settings.vertical_align = "bottom"
    /\ Len(draw.drawn) >= 2
    /\ draw.line_spacing > 0
    /\ draw.drawn[2].y > draw.drawn[1].y + draw.line_heights[1]
    /\ draw.drawn[Len(draw.drawn)].y + draw.line_heights[Len(draw.drawn)]
           = draw.text_settings.y + draw.text_settings.height

(***************************************************************************)
(* C29                                                                     *)
(***************************************************************************)
\* C29: for every cropped image (width and height >= 1) and every validated
\* placement (target width > 0) the computed height of the resized foreground
\* is >= 1: the resize step never gets a zero dimension and never raises, so
\* the composite is not abandoned because of the foreground's aspect ratio.
C29_ResizedHeightAtLeastOne ==
    /\ "resize" \notin RaisedSteps
    /\ resized_img # <<>> => resized_img[1].h >= 1

\* ---------------------------------------------------------------------
\* Template preparation: text layers (PSD) and text frames (InDesign) are
\* renamed to "lang_" + key and collected in the template dictionary.
\* Texts, keys and layer names are sequences of one-character strings.
\* ---------------------------------------------------------------------

\* the characters \s matches
Whitespace == {" ", "\t", "\n", "\r", "\f"}

DecimalDigits == <<"0", "1", "2", "3", "4", "5", "6", "7", "8", "9">>

\* re.sub(r'\s*copy\s*\d*$', '', s): the pattern matches a suffix of s when
\* s without its trailing digits and then its trailing whitespace ends with
\* "copy"; the match starts at the whitespace before that word. $ also
\* matches before a final newline.
StripCopySuffix(s) ==
    LET RECURSIVE StripTrailing(_, _)
        StripTrailing(t, chars) == IF t # <<>> /\ Last(t) \in chars THEN StripTrailing(Front(t), chars) ELSE t
        digits == {DecimalDigits[i] : i \in 1..Len(DecimalDigits)}
        BeforeTail(t) == StripTrailing(StripTrailing(t, digits), Whitespace)
        Matches(t) == Len(BeforeTail(t)) >= 4 /\ SubSeq(BeforeTail(t), Len(BeforeTail(t)) - 3, Len(BeforeTail(t))) = <<"c", "o", "p", "y">>
        WithoutMatch(t) == StripTrailing(SubSeq(BeforeTail(t), 1, Len(BeforeTail(t)) - 4), Whitespace)
    IN  IF Matches(s) THEN WithoutMatch(s)
        ELSE IF s # <<>> /\ Last(s) = "\n" /\ Matches(Front(s))
             THEN WithoutMatch(Front(s)) \o <<"\n">>
             ELSE s

\* _sanitize_layer_name: lower case, leading "lang_" prefixes removed, the
\* " copy" suffix removed (PSD processor only), spaces to underscores, only
\* [a-z0-9._-] kept, and a cut to 30 characters at the last underscore
sanitize_layer_name(processor, name) ==
    LET upper_case == <<"A", "B", "C", "D", "E", "F", "G", "H", "I", "J", "K", "L", "M", "N", "O", "P", "Q", "R", "S", "T", "U", "V", "W", "X", "Y", "Z">>
        lower_case == <<"a", "b", "c", "d", "e", "f", "g", "h", "i", "j", "k", "l", "m", "n", "o", "p", "q", "r", "s", "t", "u", "v", "w", "x", "y", "z">>
        lower(c) == IF \E i \in 1..26 : upper_case[i] = c THEN lower_case[CHOOSE i \in 1..26 : upper_case[i] = c] ELSE c
        RECURSIVE StripLangPrefixes(_)
        StripLangPrefixes(s) == IF Len(s) >= 5 /\ SubSeq(s, 1, 5) = <<"l", "a", "n", "g", "_">> THEN StripLangPrefixes(SubSeq(s, 6, Len(s))) ELSE s
        lowered == [i \in 1..Len(name) |-> lower(name[i])]
        stripped == StripLangPrefixes(lowered)
        uncopied == IF processor = "psd" THEN StripCopySuffix(stripped) ELSE stripped
        replaced == [i \in 1..Len(uncopied) |-> IF uncopied[i] = " " THEN "_" ELSE uncopied[i]]
        kept_characters == {lower_case[i] : i \in 1..26} \cup {DecimalDigits[i] : i \in 1..10} \cup {".", "_", "-"}
        Kept(c) == c \in kept_characters
        sanitized == SelectSeq(replaced, Kept)
        truncated == SubSeq(sanitized, 1, 30)
        \* truncated.rfind('_'), zero-based, -1 when there is none
        last_underscore == IF \E i \in 1..30 : truncated[i] = "_" THEN (CHOOSE i \in 1..30 : truncated[i] = "_" /\ \A j \in (i + 1)..30 : truncated[j] # "_") - 1 ELSE -1
    IN  IF Len(sanitized) > 30
        THEN IF last_underscore > 0 THEN SubSeq(sanitized, 1, last_underscore) ELSE truncated
        ELSE sanitized

\* f"{base_name}_{counter}"
Suffixed(base_name, counter) ==
    LET RECURSIVE Decimal(_)
        Decimal(n) == IF n < 10 THEN <<DecimalDigits[n + 1]>> ELSE Decimal(n \div 10) \o <<DecimalDigits[(n % 10) + 1]>>
    IN  base_name \o <<"_">> \o Decimal(counter)

\* a template value: a plain string (PSD) or a dictionary (InDesign)
StringEntry(txt) == [is_dict |-> FALSE, plainText |-> Some(txt), ranges |-> <<>>]

DictEntry(plain, ranges) == [is_dict |-> TRUE, plainText |-> plain, ranges |-> ranges]

KeyNeverTaken(processor, entries, sanitized_name, text_content) == FALSE

\* the condition under which the suffix search moves on to the next key
KeyTaken(processor, entries, sanitized_name, text_content) ==
    /\ sanitized_name \in DOMAIN entries
    /\ IF processor = "psd"
       THEN entries[sanitized_name] # StringEntry(text_content)
       ELSE entries[sanitized_name].plainText # Some(text_content)

MaxLayers == 3

\* the layers a document may hold: text layers whose texts share keys, a
\* layer that is not a text layer, and a text layer whose renaming fails
Layers ==
    {[kind |-> "text", contents |-> t, locked |-> FALSE] : t \in {<<"a">>, <<"A">>, <<"a", " ", "c", "o", "p", "y">>,
                           <<"l", "a", "n", "g", "_", "a">>, <<"a", " ", "2">>,
                           <<"!">>, <<" ">>}}
    \cup {[kind |-> "pixel", contents |-> <<>>, locked |-> FALSE],
          [kind |-> "text", contents |-> <<"A">>, locked |-> TRUE]}

\* the layer is handled: the start of the suffix search, or nothing at all
\* for a layer that is no text layer (PSD) or a blank text frame (InDesign)
process_text_layer_for_template ==
    /\ template # <<>> /\ template.pc = "layers"
    /\ template.count < MaxLayers
    /\ \E layer \in Layers :
         LET skipped == IF template.processor = "psd" THEN layer.kind # "text"
                        ELSE \A i \in 1..Len(layer.contents) : layer.contents[i] \in Whitespace
             base_name == sanitize_layer_name(template.processor, layer.contents)
         IN  template' = IF skipped
                         THEN [template EXCEPT !.count = @ + 1]
                         ELSE [template EXCEPT !.count = @ + 1, !.layer = layer,
                                               !.base_name = base_name,
                                               !.sanitized_name = base_name,
                                               !.counter = 2, !.pc = "search"]
    /\ UNCHANGED <<jobVars, batch, pool, draw, config, locale_handler>>

\* one turn of the while loop: the key is taken by another text
next_suffix ==
    /\ template # <<>> /\ template.pc = "search"
    /\ KeyTaken(template.processor, template.entries, template.sanitized_name,
                template.layer.contents)
    /\ template' = [template EXCEPT
           !.sanitized_name = Suffixed(template.base_name, template.counter),
           !.counter = @ + 1]
    /\ UNCHANGED <<jobVars, batch, pool, draw, config, locale_handler>>

\* the loop is left: the layer is renamed and the key set in the template;
\* a renaming that raises is logged and leaves layer and template alone
rename_and_add ==
    /\ template # <<>> /\ template.pc = "search"
    /\ ~KeyTaken(template.processor, template.entries, template.sanitized_name,
                 template.layer.contents)
    /\ LET t == template
           sanitized_name == t.sanitized_name
           text_content == t.layer.contents
           \* _extract_text_ranges: one style range over the whole text
           ranges == <<text_content>>
           template_entry == IF t.processor = "psd" THEN StringEntry(text_content)
                             ELSE DictEntry(Some(text_content), ranges)
           before == IF sanitized_name \in DOMAIN t.entries
                     THEN Some(t.entries[sanitized_name]) ELSE None
       IN  template' = IF t.layer.locked
                       THEN [t EXCEPT !.pc = "layers"]
                       ELSE [t EXCEPT
                               !.pc = "layers",
                               !.renamed = @ \cup {[contents |-> text_content,
                                                    key |-> sanitized_name,
                                                    name |-> <<"l", "a", "n", "g", "_">> \o sanitized_name,
                                                    before |-> before]},
                               !.entries = [k \in DOMAIN t.entries \cup {sanitized_name} |->
                                              IF k = sanitized_name THEN template_entry
                                              ELSE t.entries[k]]]
    /\ UNCHANGED <<jobVars, batch, pool, draw, config, locale_handler>>

\* every layer was handled: the template is written
export_template ==
    /\ template # <<>> /\ template.pc = "layers"
    /\ template' = [template EXCEPT !.pc = "exported"]
    /\ UNCHANGED <<jobVars, batch, pool, draw, config, locale_handler>>

NextTemplate ==
    \/ process_text_layer_for_template
    \/ next_suffix
    \/ rename_and_add
    \/ export_template

\* the templates a run may find on disk: none, and templates of earlier runs
\* of either processor whose keys are the ones the layers ask for
LoadedTemplates ==
    {<<>>,
     (<<"a">> :> StringEntry(<<"A">>)),
     (<<"a">> :> StringEntry(<<"a">>)) @@ (<<"a", "_", "2">> :> StringEntry(<<"z">>)),
     (<<"a">> :> DictEntry(Some(<<"A">>), <<>>)) @@ (<<"a", "_", "2">> :> DictEntry(None, <<>>))
        @@ (<<"a", "_", "3">> :> StringEntry(<<"a">>))}

InitTemplate ==
    /\ InitJob(NoJob)
    /\ batch = <<>>
    /\ pool = <<>>
    /\ draw = <<>>
    /\ config = <<>>
    /\ locale_handler = <<>>
    /\ \E processor \in {"psd", "indesign"}, loaded \in LoadedTemplates :
         template = [processor |-> processor, loaded |-> loaded, entries |-> loaded,
                     layer |-> <<>>, base_name |-> <<>>, sanitized_name |-> <<>>,
                     counter |-> 2, count |-> 0, renamed |-> {}, pc |-> "layers"]

SpecTemplate == InitTemplate /\ [][NextTemplate]_vars

\* C30: during template preparation a layer is assigned key k only if k is
\* absent or already maps to that layer's text; an entry, pre-loaded or
\* added, is never overwritten with different text; layers with different
\* text never share a key; the renamed layer is "lang_" + k; and the suffix
\* search ends, having passed at most one taken key per turn.
C30_KeysAssignedWithoutOverwriting ==
    template # <<>> =>
        /\ \A r \in template.renamed :
             /\ r.before = None \/ The(r.before).plainText = Some(r.contents)
             /\ r.key \in DOMAIN template.entries
             /\ template.entries[r.key].plainText = Some(r.contents)
             /\ r.name = <<"l", "a", "n", "g", "_">> \o r.key
        /\ \A k \in DOMAIN template.loaded :
             /\ k \in DOMAIN template.entries
             /\ template.entries[k].plainText = template.loaded[k].plainText
        /\ \A r1, r2 \in template.renamed :
             r1.contents # r2.contents => r1.key # r2.key
        /\ template.pc = "search" =>
             template.counter - 2 <= Cardinality(DOMAIN template.entries)

\* three layers whose different texts ask for the same key: the first takes
\* the key, the others the suffixes _2 and _3
C30_Witness_ThirdTextTakesSuffixThree ==
    /\ template # <<>> /\ template.pc = "layers"
    /\ \E r1, r2, r3 \in template.renamed :
         /\ r1.key = <<"a">> /\ r1.before = None
         /\ r2.key = <<"a", "_", "2">> /\ r2.contents # r1.contents
         /\ r3.key = <<"a", "_", "3">> /\ r3.contents \notin {r1.contents, r2.contents}
         /\ r3.name = <<"l", "a", "n", "g", "_", "a", "_", "3">>

====
